---- MODULE Spec2Model ----
(***************************************************************************)
(* A model of parts of bootc: the loopback device and its cleanup helper   *)
(* (crates/blockdev), fs-verity enablement on an ostree repository and the *)
(* layer fetch/decompress plumbing (crates/ostree-ext), and the composefs  *)
(* boot setup of the installer (crates/lib/src/install.rs).                *)
(*                                                                         *)
(* Each subsystem has its own variables, initial condition and next-state  *)
(* relation; a subsystem's specification keeps the other subsystems idle.  *)
(***************************************************************************)
EXTENDS Integers, Sequences, FiniteSets, TLC

\* ---- crates/blockdev: LoopbackDevice and the cleanup helper
VARIABLES
    loPc,            \* per device: position of the owning code
    dev,             \* LoopbackDevice.dev is Some
    cleanup_handle,  \* LoopbackDevice.cleanup_handle is Some
    attached,        \* the kernel has the loop device attached
    helper,          \* state of the cleanup helper process
    parentAlive,     \* the process that created the devices is alive
    ownerDetach,     \* number of `losetup -d` runs by the owning process
    helperDetach,    \* number of `losetup -d` runs by the helper
    closeResults     \* results of the impl_close invocations, in order

loopVars == <<loPc, dev, cleanup_handle, attached, helper, parentAlive,
              ownerDetach, helperDetach, closeResults>>

\* ---- crates/ostree-ext/src/fsverity.rs: a repository and ensure_verity
VARIABLES
    objects,         \* entries of the repository's objects directory
    cfgVerity,       \* fs-verity is enabled on the repository config file
    desired,         \* the config sets ex-integrity.fsverity to true
    evPc,            \* position of ensure_verity
    evIdx,           \* next entry of read_dir("objects")
    joinset,         \* tasks spawned and not yet joined
    taskState,       \* per entry: state of its spawn_blocking task
    ioctls,          \* fs-verity enable operations of the current call
    prevOk,          \* the previous ensure_verity call returned success
    entryTruthful    \* at entry of the current call: flag set => all verified

verVars == <<objects, cfgVerity, desired, evPc, evIdx, joinset, taskState,
             ioctls, prevOk, entryTruthful>>

\* ---- crates/ostree-ext/src/container/unencapsulate.rs: join_fetch
VARIABLES
    worker,          \* output of the worker future, if it has completed
    driver,          \* output of the driver future, if it has completed
    fetched          \* what join_fetch returned, if it has

fetchVars == <<worker, driver, fetched>>

\* ---- crates/ostree-ext: Decompressor
VARIABLES
    impl,            \* which Decompressor type the value is of
    media,           \* the media type given to Decompressor::new
    src,             \* the source stream given to Decompressor::new
    errAt,           \* the read of the source that fails (0: none)
    decoder,         \* the decoder: source position and decoding state
    reads,           \* reads the consumer has made
    dcPc,            \* "open", "finished" (by finish), "released", "dropped"
    finished,        \* Decompressor.finished
    finishResult,    \* what _finish returned
    panicked         \* the drop panicked

decompVars == <<impl, media, src, errAt, decoder, reads, dcPc, finished,
                finishResult, panicked>>

\* ---- crates/lib/src/install.rs: setup_composefs_uki_boot
VARIABLES
    ukiPc,           \* position of setup_composefs_uki_boot
    ukiSetup,        \* its setup_type
    ukiEntry,        \* the variant of its entry
    ukiId,           \* the deployment id
    cmdId,           \* the id of composefs= in the UKI's cmdline
    cmdInsecure,     \* composefs= of the UKI's cmdline has the `?`
    optInsecure,     \* is_insecure_from_opts: "none", "true" or "false"
    espMounted,      \* the ESP is mounted at <root>/esp
    everMounted,     \* the call has mounted the ESP
    mpExisted,       \* esp_mount_point_existed
    mpExists,        \* <root>/esp exists
    espUki,          \* ids with EFI/Linux/<id>.efi on the ESP
    warned           \* the insecure mismatch warning was logged

ukiVars == <<ukiPc, ukiSetup, ukiEntry, ukiId, cmdId, cmdInsecure, optInsecure,
             espMounted, everMounted, mpExisted, mpExists, espUki, warned>>

\* ---- crates/lib/src/install.rs: setup_composefs_boot and the target's state
VARIABLES
    sbPc,            \* position of setup_composefs_boot
    sbId,            \* the deployment id
    sbEntry,         \* the variant of the image's first boot entry
    deployDirs,      \* ids whose state/deploy/<id>/ exists
    varLinks,        \* ids whose state/deploy/<id>/var exists
    originFile,        \* per id: boot type of <id>.origin, "none" without one
    blsEntries,      \* ids with an entry under boot/loader/entries
    stagedId         \* the staged deployment file's id (0: no file)

stateVars == <<sbPc, sbId, sbEntry, deployDirs, varLinks, originFile,
               blsEntries,
               stagedId>>

\* ---- crates/lib/src/install.rs: setup_composefs_bls_boot
VARIABLES
    blsPc,           \* position of setup_composefs_bls_boot
    blsSetup,        \* the BootSetupType
    blsVariant,      \* the variant of the boot entry
    blsId,           \* the deployment id
    blsOpt,          \* composefs_options.insecure of the install options
    blsDigest,       \* the boot digest of the entry's vmlinuz + initrd
    repoInsecure,    \* the composefs repository is in insecure mode
    targetDeploy,    \* per id: boot digest recorded under <root>/state/deploy
    sysrootDeploy,   \* per id: the same under /sysroot/state/deploy
    bootFiles,       \* ids with <root>/boot/<id>/vmlinuz and initrd
    bootedBls,       \* the booted entry in /sysroot/boot/loader/entries
    blsWritten,      \* the new entry as written
    entriesDir,      \* <root>/boot/loader/entries
    stagedDir        \* <root>/boot/loader/entries.staged

blsVars == <<blsPc, blsSetup, blsVariant, blsId, blsOpt, blsDigest,
             repoInsecure, targetDeploy, sysrootDeploy, bootFiles, bootedBls,
             blsWritten, entriesDir, stagedDir>>

\* ---- crates/lib/src/install.rs: install_to_filesystem_impl
VARIABLES
    instPc,            \* position of install_to_filesystem_impl
    instComposefs,     \* state.composefs_options.is_some()
    instCleanup,       \* the Cleanup argument
    instBound,         \* the kind of BoundImages
    instSkipFinalize,  \* rootfs.skip_finalize
    instHasBoot,       \* rootfs.boot.is_some()
    alephWritten,      \* <root>/.bootc-aleph.json exists
    cleanupMarker,     \* the destructive-cleanup marker exists
    finalized,         \* the filesystems finalize_filesystem has done
    instLog,           \* the steps of the install done so far, in order
    instFsIdx,         \* finalize: the filesystem being finalized
    instFsStep,        \* finalize: the next command of finalize_filesystem
    instFsLog,         \* finalize: the commands run, in order
    frozen             \* the filesystems that are frozen

installVars == <<instPc, instComposefs, instCleanup, instBound,
                 instSkipFinalize, instHasBoot, alephWritten, cleanupMarker,
                 finalized, instLog, instFsIdx, instFsStep, instFsLog,
                 frozen>>

\* ---- crates/lib/src/status.rs: the host status
VARIABLES
    hsPc,            \* position of the status computation
    hsBackend,       \* "ostree" (get_status) or "composefs"
    hsDepls,         \* the deployments on disk, in iteration order
    hsBooted,        \* the id of the booted deployment (0: none of them)
    hsStagedFile,    \* the id in the staged-deployment file (0: no file)
    hsIdx,           \* the loop's position in hsDepls
    hsStatus         \* the status computed so far

statusVars == <<hsPc, hsBackend, hsDepls, hsBooted, hsStagedFile, hsIdx,
                hsStatus>>

\* ---- crates/lib/src/install.rs: require_empty_rootdir
VARIABLES
    rdPc,            \* position of require_empty_rootdir
    rdRoot,          \* the target root's entries, in iteration order
    rdBoot,          \* the entries of its boot/, in iteration order
    rdIdx            \* the loop's position in rdRoot

rootdirVars == <<rdPc, rdRoot, rdBoot, rdIdx>>

\* ---- crates/lib/src/parsers/bls_config.rs: Ord for BLSConfig
VARIABLES
    ordPc,           \* "idle" or "compared"
    ordA, ordB, ordC, \* three BLSConfig values
    ordRes           \* the results of cmp on them

ordVars == <<ordPc, ordA, ordB, ordC, ordRes>>

\* ---- crates/lib/src/parsers/bls_config.rs: to_string and parse_bls_config
VARIABLES
    rtPc,            \* "cfg", "text" or "parsed"
    rtCfg,           \* a BLSConfig value
    rtText,          \* its to_string(), as lines
    rtParsed         \* the result of parse_bls_config on the text

parseVars == <<rtPc, rtCfg, rtText, rtParsed>>

\* ---- crates/lib/src/kernel_cmdline.rs: Parameter
VARIABLES
    kpPc,            \* "idle" or "compared"
    kpA, kpB,        \* the texts of two parameters
    kpEq             \* the result of ==

kargsVars == <<kpPc, kpA, kpB, kpEq>>

\* ---- crates/blockdev/src/blockdev.rs: parse_size_mib
VARIABLES
    psPc,            \* "loop", "ok" or "err"
    psIn,            \* the argument
    psS,             \* the local s
    psMul,           \* the local mul
    psIdx,           \* the loop's position in the suffixes
    psVal            \* the value returned

sizeVars == <<psPc, psIn, psS, psMul, psIdx, psVal>>

\* ---- crates/lib/src/install.rs: install_to_disk
VARIABLES
    dkPc,            \* position of install_to_disk
    dkViaLoopback,   \* opts.via_loopback
    dkComposefs,     \* opts.composefs_native
    dkFileType,      \* file type of the target device path
    dkGeneric,       \* opts.config_opts.generic_image
    dkLuks,          \* the block setup asks for a LUKS root
    dkLoopback,      \* the local `loopback` holds a LoopbackDevice
    dkMounted,       \* the target filesystems are mounted
    dkLuksOpen,      \* the root LUKS device is open
    dkReleased       \* `losetup -d` has been run on the loop device

diskVars == <<dkPc, dkViaLoopback, dkComposefs, dkFileType, dkGeneric, dkLuks, dkLoopback,
              dkMounted, dkLuksOpen, dkReleased>>

\* ---- crates/lib/src/install.rs: prepare_install
VARIABLES
    ppPc,            \* position of prepare_install
    ppExternal,      \* source_opts.source_imgref.is_some()
    ppHostContainer, \* the command runs inside a container
    ppSkipUnshare,   \* BOOTC_SKIP_UNSHARE is set
    ppFetchCheck,    \* target_opts.run_fetch_check
    ppLog            \* the steps taken so far, in order

prepVars == <<ppPc, ppExternal, ppHostContainer, ppSkipUnshare, ppFetchCheck,
              ppLog>>

vars == <<loopVars, verVars, fetchVars, decompVars, ukiVars, stateVars,
          blsVars, installVars, statusVars, rootdirVars, ordVars,
          parseVars, kargsVars, sizeVars, diskVars, prepVars>>

notLoop ==
    <<verVars, fetchVars, decompVars, ukiVars, stateVars, blsVars,
      installVars, statusVars, rootdirVars, ordVars, parseVars, kargsVars,
      sizeVars, diskVars, prepVars>>
notVerity ==
    <<loopVars, fetchVars, decompVars, ukiVars, stateVars, blsVars,
      installVars, statusVars, rootdirVars, ordVars, parseVars, kargsVars,
      sizeVars, diskVars, prepVars>>
notFetch ==
    <<loopVars, verVars, decompVars, ukiVars, stateVars, blsVars,
      installVars, statusVars, rootdirVars, ordVars, parseVars, kargsVars,
      sizeVars, diskVars, prepVars>>
notDecomp ==
    <<loopVars, verVars, fetchVars, ukiVars, stateVars, blsVars,
      installVars, statusVars, rootdirVars, ordVars, parseVars, kargsVars,
      sizeVars, diskVars, prepVars>>
notUki ==
    <<loopVars, verVars, fetchVars, decompVars, stateVars, blsVars,
      installVars, statusVars, rootdirVars, ordVars, parseVars, kargsVars,
      sizeVars, diskVars, prepVars>>
notState ==
    <<loopVars, verVars, fetchVars, decompVars, ukiVars, blsVars,
      installVars, statusVars, rootdirVars, ordVars, parseVars, kargsVars,
      sizeVars, diskVars, prepVars>>
notBls ==
    <<loopVars, verVars, fetchVars, decompVars, ukiVars, stateVars,
      installVars, statusVars, rootdirVars, ordVars, parseVars, kargsVars,
      sizeVars, diskVars, prepVars>>
notInstall ==
    <<loopVars, verVars, fetchVars, decompVars, ukiVars, stateVars,
      blsVars, statusVars, rootdirVars, ordVars, parseVars, kargsVars,
      sizeVars, diskVars, prepVars>>
notStatus ==
    <<loopVars, verVars, fetchVars, decompVars, ukiVars, stateVars,
      blsVars, installVars, rootdirVars, ordVars, parseVars, kargsVars,
      sizeVars, diskVars, prepVars>>
notRootdir ==
    <<loopVars, verVars, fetchVars, decompVars, ukiVars, stateVars,
      blsVars, installVars, statusVars, ordVars, parseVars, kargsVars,
      sizeVars, diskVars, prepVars>>
notOrd ==
    <<loopVars, verVars, fetchVars, decompVars, ukiVars, stateVars,
      blsVars, installVars, statusVars, rootdirVars, parseVars, kargsVars,
      sizeVars, diskVars, prepVars>>
notParse ==
    <<loopVars, verVars, fetchVars, decompVars, ukiVars, stateVars,
      blsVars, installVars, statusVars, rootdirVars, ordVars, kargsVars,
      sizeVars, diskVars, prepVars>>
notKargs ==
    <<loopVars, verVars, fetchVars, decompVars, ukiVars, stateVars,
      blsVars, installVars, statusVars, rootdirVars, ordVars, parseVars,
      sizeVars, diskVars, prepVars>>
notSize ==
    <<loopVars, verVars, fetchVars, decompVars, ukiVars, stateVars,
      blsVars, installVars, statusVars, rootdirVars, ordVars, parseVars,
      kargsVars, diskVars, prepVars>>
notDisk ==
    <<loopVars, verVars, fetchVars, decompVars, ukiVars, stateVars,
      blsVars, installVars, statusVars, rootdirVars, ordVars, parseVars,
      kargsVars, sizeVars, prepVars>>
notPrep ==
    <<loopVars, verVars, fetchVars, decompVars, ukiVars, stateVars,
      blsVars, installVars, statusVars, rootdirVars, ordVars, parseVars,
      kargsVars, sizeVars, diskVars>>

(***************************************************************************)
(* Bounds of the model.                                                    *)
(***************************************************************************)
MaxDevs == 2
MaxObjDirs == 4
MaxChain == 2
MaxSrcLen == 3
MaxIds == 2
MaxDepls == 3
MaxKey == 1
MaxVersion == 1
MaxStrLen == 2
MaxParamLen == 3
MaxSizeLen == 3

(***************************************************************************)
(*                 crates/blockdev/src/blockdev.rs                         *)
(***************************************************************************)
Devs == 1..MaxDevs

\* Helper process states in which the helper is still executing.
HelperRunning == {"starting", "armed", "waiting", "signalled"}

\* `losetup -d`: detaches the device when the command succeeds.
LosetupD(att, ok) == IF att /\ ok THEN FALSE ELSE att

\* Faulty variant of TakeDev: `self.dev.as_ref()` instead of `self.dev.take()`.
TakeDevPeek(d) == dev

\* `self.dev.take()` leaves None in the field.
TakeDev(d) == [dev EXCEPT ![d] = FALSE]

\* Faulty variant of KillHelper: the helper is left alone.
KillHelperSkipped(h) == h

\* Faulty variant of KillHelper: the helper is sent SIGTERM, which wakes a
\* helper waiting on its signal stream.
KillHelperSigterm(h) ==
    CASE h = "waiting" -> "signalled"
      [] h \in {"starting", "armed"} -> "terminated"
      [] OTHER -> h

\* `cleanup_handle.child.kill()`: std's Child::kill sends SIGKILL, which a
\* process that is still executing cannot handle.
KillHelper(h) == IF h \in HelperRunning THEN "killed" ELSE h

\* LoopbackDevice::new succeeded: the device is attached and the cleanup
\* helper was spawned (spawned) or failed to spawn (a warning only).
New(d, spawned) ==
    /\ parentAlive
    /\ loPc[d] = "unborn"
    /\ loPc' = [loPc EXCEPT ![d] = "live"]
    /\ dev' = [dev EXCEPT ![d] = TRUE]
    /\ attached' = [attached EXCEPT ![d] = TRUE]
    /\ cleanup_handle' = [cleanup_handle EXCEPT ![d] = spawned]
    /\ helper' = [helper EXCEPT ![d] = IF spawned THEN "starting" ELSE "none"]
    /\ UNCHANGED <<parentAlive, ownerDetach, helperDetach, closeResults>>
    /\ UNCHANGED notLoop

\* The shared backend of close and drop; ok is whether `losetup -d` succeeds.
ImplClose(d, ok) ==
    IF ~dev[d]
    THEN /\ closeResults' = [closeResults EXCEPT ![d] = Append(@, "ok")]
         /\ UNCHANGED <<dev, cleanup_handle, helper, attached, ownerDetach>>
    ELSE /\ dev' = TakeDev(d)
         /\ cleanup_handle' = [cleanup_handle EXCEPT ![d] = FALSE]
         /\ helper' = [helper EXCEPT ![d] =
                          IF cleanup_handle[d] THEN KillHelper(@) ELSE @]
         /\ ownerDetach' = [ownerDetach EXCEPT ![d] = @ + 1]
         /\ attached' = [attached EXCEPT ![d] = LosetupD(@, ok)]
         /\ closeResults' = [closeResults EXCEPT ![d] =
                 Append(@, IF attached[d] /\ ok THEN "ok" ELSE "err")]

\* LoopbackDevice::close(self): impl_close; the consumed value is dropped as
\* the function returns (Drop below, from "closing").
Close(d, ok) ==
    /\ parentAlive
    /\ loPc[d] = "live"
    /\ ImplClose(d, ok)
    /\ loPc' = [loPc EXCEPT ![d] = "closing"]
    /\ UNCHANGED <<parentAlive, helperDetach>>
    /\ UNCHANGED notLoop

\* Drop for LoopbackDevice: impl_close with the result discarded.
Drop(d, ok) ==
    /\ parentAlive
    /\ loPc[d] \in {"live", "closing"}
    /\ ImplClose(d, ok)
    /\ loPc' = [loPc EXCEPT ![d] = "dropped"]
    /\ UNCHANGED <<parentAlive, helperDetach>>
    /\ UNCHANGED notLoop

\* The owning process dies without running destructors (SIGKILL).  The kernel
\* sends the parent-death signal to the children that have set one: SIGTERM
\* wakes a helper waiting on its signal stream and terminates, by its default
\* action, a helper that has not yet installed the handler.
ParentDies ==
    /\ parentAlive
    /\ parentAlive' = FALSE
    /\ helper' = [d \in Devs |->
                    CASE helper[d] = "waiting" -> "signalled"
                      [] helper[d] = "armed"   -> "terminated"
                      [] OTHER                 -> helper[d]]
    /\ UNCHANGED <<loPc, dev, cleanup_handle, attached, ownerDetach,
                   helperDetach, closeResults>>
    /\ UNCHANGED notLoop

\* run_loopback_cleanup_helper: set_parent_process_death_signal(SIGTERM).
HelperSetPdeathsig(d) ==
    /\ helper[d] = "starting"
    /\ helper' = [helper EXCEPT ![d] = "armed"]
    /\ UNCHANGED <<loPc, dev, cleanup_handle, attached, parentAlive,
                   ownerDetach, helperDetach, closeResults>>
    /\ UNCHANGED notLoop

\* run_loopback_cleanup_helper: the SIGTERM stream is created and awaited.
HelperListen(d) ==
    /\ helper[d] = "armed"
    /\ helper' = [helper EXCEPT ![d] = "waiting"]
    /\ UNCHANGED <<loPc, dev, cleanup_handle, attached, parentAlive,
                   ownerDetach, helperDetach, closeResults>>
    /\ UNCHANGED notLoop

\* run_loopback_cleanup_helper after SIGTERM: `losetup -d`, then exit.
HelperCleanup(d, ok) ==
    /\ helper[d] = "signalled"
    /\ helperDetach' = [helperDetach EXCEPT ![d] = @ + 1]
    /\ attached' = [attached EXCEPT ![d] = LosetupD(@, ok)]
    /\ helper' = [helper EXCEPT ![d] =
                     IF attached[d] /\ ok THEN "exit0" ELSE "exit1"]
    /\ UNCHANGED <<loPc, dev, cleanup_handle, parentAlive, ownerDetach,
                   closeResults>>
    /\ UNCHANGED notLoop

HelperProc(d) ==
    \/ HelperSetPdeathsig(d)
    \/ HelperListen(d)
    \/ \E ok \in BOOLEAN : HelperCleanup(d, ok)

NextLoop ==
    \/ \E d \in Devs, spawned \in BOOLEAN : New(d, spawned)
    \/ \E d \in Devs, ok \in BOOLEAN : Close(d, ok)
    \/ \E d \in Devs, ok \in BOOLEAN : Drop(d, ok)
    \/ ParentDies
    \/ \E d \in Devs : HelperProc(d)

IdleLoop ==
    /\ loPc = [d \in Devs |-> "unborn"]
    /\ dev = [d \in Devs |-> FALSE]
    /\ cleanup_handle = [d \in Devs |-> FALSE]
    /\ attached = [d \in Devs |-> FALSE]
    /\ helper = [d \in Devs |-> "none"]
    /\ parentAlive = TRUE
    /\ ownerDetach = [d \in Devs |-> 0]
    /\ helperDetach = [d \in Devs |-> 0]
    /\ closeResults = [d \in Devs |-> <<>>]



(***************************************************************************)
(*                 crates/ostree-ext/src/fsverity.rs                       *)
(***************************************************************************)
MAX_CONCURRENT == 3

Entries == 1..MaxObjDirs

\* An entry of an object directory: its extension, whether it is a regular
\* file, and whether fs-verity is enabled on it.
Obj(ext, regular, verity) == [ext |-> ext, regular |-> regular, verity |-> verity]

\* What read_dir("objects") may yield: something that is not a directory, or
\* an object directory with its entries.
EntryShapes ==
    { [isDir |-> FALSE, files |-> <<>>],
      [isDir |-> TRUE,  files |-> <<Obj("file", TRUE, TRUE)>>],
      [isDir |-> TRUE,  files |-> <<Obj("commit", TRUE, FALSE),
                                    Obj("file", FALSE, FALSE),
                                    Obj("file", TRUE, FALSE),
                                    Obj("file", TRUE, FALSE)>>] }

\* The regular file objects: regular files with the extension "file".
IsFileObject(o) == o.regular /\ o.ext = "file"

\* Every regular file object of every object directory has fs-verity.
AllVerified ==
    \A e \in Entries :
        objects[e].isDir =>
            \A i \in 1..Len(objects[e].files) :
                IsFileObject(objects[e].files[i]) => objects[e].files[i].verity

\* Faulty variant of NeedsEnable: the object is never found to need fs-verity.
NeedsEnableNever(o) == FALSE

\* enable_fsverity_in_objdir: measure_verity_opt(..).is_some() is false.
NeedsEnable(o) == ~o.verity

\* enable_fsverity_in_objdir from entry i on; the enable operation on entry
\* failAt fails (0: none does).  Yields the directory's entries afterwards,
\* the result and the number of enable operations made.
RECURSIVE ObjdirWalk(_, _, _, _)
ObjdirWalk(files, i, failAt, n) ==
    IF i > Len(files)
    THEN [files |-> files, ok |-> TRUE, n |-> n]
    ELSE IF ~IsFileObject(files[i]) \/ ~NeedsEnable(files[i])
    THEN ObjdirWalk(files, i + 1, failAt, n)
    ELSE IF i = failAt
    THEN [files |-> files, ok |-> FALSE, n |-> n + 1]
    ELSE ObjdirWalk([files EXCEPT ![i].verity = TRUE], i + 1, failAt, n + 1)

enable_fsverity_in_objdir(files, failAt) == ObjdirWalk(files, 1, failAt, 0)

\* Faulty variant of QueueFull: the queue may grow one past the limit.
QueueFullOffByOne(n) == n > MAX_CONCURRENT

\* ensure_verity: `joinset.len() >= MAX_CONCURRENT`.
QueueFull(n) == n >= MAX_CONCURRENT

\* Faulty variant of JoinOk: the result of a joined task is not looked at.
JoinOkAlways(st) == TRUE

\* `joinset.join_next().await ... ??`: the joined task returned Ok.
JoinOk(st) == st = "ok"

\* Faulty variant of AlreadyEnabled: the early return is never taken.
AlreadyEnabledNever(enabled) == FALSE

\* ensure_verity: `if state.enabled { return Ok(()) }`.
AlreadyEnabled(enabled) == enabled

\* Tasks of the join set that have finished.
Finished == {t \in joinset : taskState[t] \in {"ok", "err"}}

\* ensure_verity is called: is_verity_enabled, and the early return when the
\* flag is set.  A new call waits for tasks an earlier failed call left behind.
EnsureStart ==
    /\ evPc \in {"idle", "ok", "err"}
    /\ \A e \in Entries : taskState[e] # "running"
    /\ prevOk' = (evPc = "ok")
    /\ ioctls' = 0
    /\ entryTruthful' = (cfgVerity => AllVerified)
    /\ evPc' = IF AlreadyEnabled(cfgVerity) THEN "ok" ELSE "walk"
    /\ evIdx' = 1
    /\ joinset' = {}
    /\ taskState' = [e \in Entries |-> "none"]
    /\ UNCHANGED <<objects, cfgVerity, desired>>
    /\ UNCHANGED notVerity

\* The walk blocks on join_next while the queue is full; a failed task ends
\* ensure_verity with its error, and the join set is dropped.
WalkJoin(t) ==
    /\ evPc = "walk"
    /\ QueueFull(Cardinality(joinset))
    /\ t \in Finished
    /\ IF JoinOk(taskState[t])
       THEN /\ joinset' = joinset \ {t}
            /\ evPc' = evPc
       ELSE /\ joinset' = {}
            /\ evPc' = "err"
    /\ UNCHANGED <<objects, cfgVerity, desired, evIdx, taskState, ioctls,
                   prevOk, entryTruthful>>
    /\ UNCHANGED notVerity

\* The walk takes the next entry: an entry that cannot be read ends the call,
\* an entry that is not a directory is skipped, a directory gets a task.
WalkEntry(readOk) ==
    /\ evPc = "walk"
    /\ ~QueueFull(Cardinality(joinset))
    /\ IF ~readOk
       THEN /\ evPc' = "err"
            /\ joinset' = {}
            /\ UNCHANGED <<evIdx, taskState>>
       ELSE /\ evIdx' = evIdx + 1
            /\ evPc' = IF evIdx = MaxObjDirs THEN "drain" ELSE "walk"
            /\ IF objects[evIdx].isDir
               THEN /\ joinset' = joinset \cup {evIdx}
                    /\ taskState' = [taskState EXCEPT ![evIdx] = "running"]
               ELSE UNCHANGED <<joinset, taskState>>
    /\ UNCHANGED <<objects, cfgVerity, desired, ioctls, prevOk, entryTruthful>>
    /\ UNCHANGED notVerity

\* A blocking task runs enable_fsverity_in_objdir on its directory.
TaskRun(t, failAt) ==
    /\ taskState[t] = "running"
    /\ LET r == enable_fsverity_in_objdir(objects[t].files, failAt) IN
        /\ objects' = [objects EXCEPT ![t].files = r.files]
        /\ taskState' = [taskState EXCEPT ![t] = IF r.ok THEN "ok" ELSE "err"]
        /\ ioctls' = ioctls + r.n
    /\ UNCHANGED <<cfgVerity, desired, evPc, evIdx, joinset, prevOk,
                   entryTruthful>>
    /\ UNCHANGED notVerity

\* The remaining tasks are drained, one join_next at a time.
Drain(t) ==
    /\ evPc = "drain"
    /\ t \in Finished
    /\ IF JoinOk(taskState[t])
       THEN /\ joinset' = joinset \ {t}
            /\ evPc' = evPc
       ELSE /\ joinset' = {}
            /\ evPc' = "err"
    /\ UNCHANGED <<objects, cfgVerity, desired, evIdx, taskState, ioctls,
                   prevOk, entryTruthful>>
    /\ UNCHANGED notVerity

\* The join set is empty: the config gets the fsverity key unless it has it
\* (the rewritten file is a new one), then fs-verity is enabled on the config
\* file; AlreadyEnabled counts as success.
SetFlag(writeOk, enableOk) ==
    /\ evPc = "drain"
    /\ joinset = {}
    /\ IF ~desired /\ ~writeOk
       THEN /\ evPc' = "err"
            /\ UNCHANGED <<desired, cfgVerity, ioctls>>
       ELSE /\ desired' = TRUE
            /\ ioctls' = ioctls + 1
            /\ LET had == IF desired THEN cfgVerity ELSE FALSE IN
                /\ cfgVerity' = (had \/ enableOk)
                /\ evPc' = IF had \/ enableOk THEN "ok" ELSE "err"
    /\ UNCHANGED <<objects, evIdx, joinset, taskState, prevOk, entryTruthful>>
    /\ UNCHANGED notVerity

NextVerity ==
    \/ EnsureStart
    \/ \E t \in Entries : WalkJoin(t)
    \/ \E readOk \in BOOLEAN : WalkEntry(readOk)
    \/ \E t \in Entries : \E failAt \in 0..Len(objects[t].files) : TaskRun(t, failAt)
    \/ \E t \in Entries : Drain(t)
    \/ \E writeOk \in BOOLEAN, enableOk \in BOOLEAN : SetFlag(writeOk, enableOk)

IdleVerity ==
    /\ objects = [e \in Entries |-> [isDir |-> FALSE, files |-> <<>>]]
    /\ cfgVerity = FALSE
    /\ desired = FALSE
    /\ evPc = "idle"
    /\ evIdx = 1
    /\ joinset = {}
    /\ taskState = [e \in Entries |-> "none"]
    /\ ioctls = 0
    /\ prevOk = FALSE
    /\ entryTruthful = TRUE

\* Any repository: any object directories, the flag set or not.
InitVerity ==
    /\ objects \in [Entries -> EntryShapes]
    /\ cfgVerity \in BOOLEAN
    /\ desired \in BOOLEAN
    /\ evPc = "idle"
    /\ evIdx = 1
    /\ joinset = {}
    /\ taskState = [e \in Entries |-> "none"]
    /\ ioctls = 0
    /\ prevOk = FALSE
    /\ entryTruthful = TRUE

(***************************************************************************)
(*     crates/ostree-ext/src/container/unencapsulate.rs: join_fetch        *)
(***************************************************************************)
\* Texts are sequences of characters.
BrokenPipeText == <<"b", "r", "o", "k", "e", "n", " ", "p", "i", "p", "e">>

\* s.ends_with(suffix)
EndsWith(s, suffix) ==
    /\ Len(suffix) <= Len(s)
    /\ SubSeq(s, Len(s) - Len(suffix) + 1, Len(s)) = suffix

\* The messages an error may carry.
Texts ==
    { BrokenPipeText,
      <<"E", "P", "I", "P", "E", ":", " ">> \o BrokenPipeText,
      <<"u", "n">> \o BrokenPipeText,
      BrokenPipeText \o <<" ", "(", "3", "2", ")">>,
      <<"t", "i", "m", "e", "o", "u", "t">> }

\* An anyhow error: the chain of its messages, outermost context first, and
\* the future that raised it.
Chains == UNION {[1..n -> Texts] : n \in 1..MaxChain}

Ok(v) == [ok |-> TRUE, origin |-> "none", chain |-> <<>>, val |-> v]
Err(origin, chain) == [ok |-> FALSE, origin |-> origin, chain |-> chain, val |-> 0]

\* A future that has not completed, a call that has not returned.
NotYet == [ok |-> FALSE, origin |-> "pending", chain |-> <<>>, val |-> 0]

WorkerResults == {Ok(1)} \cup {Err("worker", c) : c \in Chains}
DriverResults == {Ok(0)} \cup {Err("driver", c) : c \in Chains}

\* Error::root_cause(): the innermost message.
root_cause(e) == e.chain[Len(e.chain)]

\* Error::context(text): a new outermost message.
context(e, text) == [e EXCEPT !.chain = <<text>> \o e.chain]

\* format!("proxy failure: {} and client error", text)
ProxyFailure(text) ==
    <<"p", "r", "o", "x", "y", " ", "f", "a", "i", "l", "u", "r", "e", ":", " ">>
    \o text
    \o <<" ", "a", "n", "d", " ", "c", "l", "i", "e", "n", "t", " ",
         "e", "r", "r", "o", "r">>

\* Faulty variant of BothFailed: the driver's error is returned.
BothFailedDriver(w, d) == d

\* join_fetch, the arm (Err(worker), Err(driver)).
BothFailed(w, d) ==
    LET text == root_cause(d) IN
    IF EndsWith(text, BrokenPipeText)
    THEN w
    ELSE context(w, ProxyFailure(text))

\* join_fetch on the outputs of the two futures.
join_fetch(w, d) ==
    CASE w.ok /\ d.ok   -> w
      [] ~w.ok /\ ~d.ok -> BothFailed(w, d)
      [] w.ok /\ ~d.ok  -> d
      [] ~w.ok /\ d.ok  -> w

\* tokio::join!: the worker future completes.
WorkerDone(r) ==
    /\ worker = NotYet
    /\ worker' = r
    /\ UNCHANGED <<driver, fetched>>
    /\ UNCHANGED notFetch

\* tokio::join!: the driver future completes.
DriverDone(r) ==
    /\ driver = NotYet
    /\ driver' = r
    /\ UNCHANGED <<worker, fetched>>
    /\ UNCHANGED notFetch

\* Both futures have completed: join_fetch returns.
JoinFetch ==
    /\ worker # NotYet
    /\ driver # NotYet
    /\ fetched = NotYet
    /\ fetched' = join_fetch(worker, driver)
    /\ UNCHANGED <<worker, driver>>
    /\ UNCHANGED notFetch

NextFetch ==
    \/ \E r \in WorkerResults : WorkerDone(r)
    \/ \E r \in DriverResults : DriverDone(r)
    \/ JoinFetch

IdleFetch ==
    /\ worker = NotYet
    /\ driver = NotYet
    /\ fetched = NotYet

(***************************************************************************)
(*   Decompressor: crates/ostree-ext/src/generic_decompress.rs and the     *)
(*   one of crates/ostree-ext/src/container/unencapsulate.rs               *)
(***************************************************************************)
\* The source stream is a sequence of tokens: "d" a piece of compressed (or
\* plain) data, "e" the end of a gzip member or zstd frame, "s" a zstd
\* skippable frame, "x" bytes that are no valid input.
Tokens == {"d", "e", "s", "x"}

Sources == UNION {[1..n -> Tokens] : n \in 0..MaxSrcLen}

\* The media types Decompressor::new accepts.
MediaTypes == {"gzip", "zstd", "plain"}

\* The two Decompressor types of the crate.
Impls == {"generic", "legacy"}

\* A read of the source stream at position pos: an error where the stream is
\* broken, end-of-file at its end, the next token otherwise.
SourceRead(pos) ==
    IF errAt = pos + 1 THEN [res |-> "err", pos |-> pos]
    ELSE IF pos = Len(src) THEN [res |-> "eof", pos |-> pos]
    ELSE [res |-> src[pos + 1], pos |-> pos + 1]

\* A read through the decoder in decoder state st = [pos, done, inFrame]:
\* the result and the decoder's state afterwards.
\*  - plain: the source itself;
\*  - gzip (flate2::bufread::GzDecoder): one member; after its end the decoder
\*    is at end-of-file and reads the source no more;
\*  - zstd (zstd::stream::read::Decoder): frame after frame, skippable frames
\*    included, to the end of the source.
DecoderRead(st) ==
    LET r == SourceRead(st.pos) IN
    CASE media = "plain" ->
            [res |-> IF r.res \in {"err", "eof"} THEN r.res ELSE "data",
             st |-> [st EXCEPT !.pos = r.pos]]
      [] media = "gzip" ->
            IF st.done THEN [res |-> "eof", st |-> st]
            ELSE IF r.res = "d"
            THEN [res |-> "data", st |-> [st EXCEPT !.pos = r.pos]]
            ELSE IF r.res = "e"
            THEN [res |-> "data", st |-> [st EXCEPT !.pos = r.pos, !.done = TRUE]]
            ELSE [res |-> "err", st |-> st]
      [] media = "zstd" ->
            IF r.res = "d"
            THEN [res |-> "data",
                  st |-> [st EXCEPT !.pos = r.pos, !.inFrame = TRUE]]
            ELSE IF r.res = "e"
            THEN [res |-> "data",
                  st |-> [st EXCEPT !.pos = r.pos, !.inFrame = FALSE]]
            ELSE IF r.res = "s" /\ ~st.inFrame
            THEN [res |-> "data", st |-> [st EXCEPT !.pos = r.pos]]
            ELSE IF r.res = "eof" /\ ~st.inFrame
            THEN [res |-> "eof", st |-> st]
            ELSE [res |-> "err", st |-> st]

\* std::io::copy(self.inner.get_inner_mut(), sink): the source is read until
\* end-of-file or an error.
RECURSIVE DrainSource(_)
DrainSource(st) ==
    LET r == SourceRead(st.pos) IN
    IF r.res = "err" THEN [ok |-> FALSE, st |-> st]
    ELSE IF r.res = "eof" THEN [ok |-> TRUE, st |-> st]
    ELSE DrainSource([st EXCEPT !.pos = r.pos])

\* std::io::copy(&mut self.inner, sink): the decoder is read until it is at
\* end-of-file or fails.
RECURSIVE DrainDecoder(_)
DrainDecoder(st) ==
    LET r == DecoderRead(st) IN
    IF r.res = "err" THEN [ok |-> FALSE, st |-> st]
    ELSE IF r.res = "eof" THEN [ok |-> TRUE, st |-> st]
    ELSE DrainDecoder(r.st)

\* Decompressor::_finish of either type.
FinishImpl(st) ==
    IF impl = "generic" THEN DrainSource(st) ELSE DrainDecoder(st)

\* Faulty variant of DropPanics: the result of the drain is discarded.
DropPanicsNever(ok) == FALSE

\* Drop for Decompressor: `self._finish().expect(..)`.
DropPanics(ok) == ~ok

\* The consumer of the decompressed stream reads once.
DecRead ==
    /\ dcPc = "open"
    /\ decoder' = DecoderRead(decoder).st
    /\ reads' = reads + 1
    /\ reads < MaxSrcLen + 1
    /\ UNCHANGED <<impl, media, src, errAt, dcPc, finished, finishResult,
                   panicked>>
    /\ UNCHANGED notDecomp

\* Decompressor::finish(self).
DecFinish ==
    /\ dcPc = "open"
    /\ LET r == FinishImpl(decoder) IN
        /\ decoder' = r.st
        /\ finishResult' = IF r.ok THEN "ok" ELSE "err"
    /\ finished' = TRUE
    /\ dcPc' = "finished"
    /\ UNCHANGED <<impl, media, src, errAt, reads, panicked>>
    /\ UNCHANGED notDecomp

\* Drop for Decompressor: nothing after finish (which consumed the value);
\* otherwise the drain of _finish, and a panic if it fails.
DecDrop ==
    /\ dcPc \in {"open", "finished"}
    /\ IF finished
       THEN /\ dcPc' = "released"
            /\ UNCHANGED <<decoder, finishResult, finished, panicked>>
       ELSE LET r == FinishImpl(decoder) IN
            /\ decoder' = r.st
            /\ finishResult' = IF r.ok THEN "ok" ELSE "err"
            /\ finished' = TRUE
            /\ panicked' = DropPanics(r.ok)
            /\ dcPc' = "dropped"
    /\ UNCHANGED <<impl, media, src, errAt, reads>>
    /\ UNCHANGED notDecomp

NextDecomp ==
    \/ DecRead
    \/ DecFinish
    \/ DecDrop

IdleDecomp ==
    /\ impl = "generic"
    /\ media = "plain"
    /\ src = <<>>
    /\ errAt = 0
    /\ decoder = [pos |-> 0, done |-> FALSE, inFrame |-> FALSE]
    /\ reads = 0
    /\ dcPc = "open"
    /\ finished = FALSE
    /\ finishResult = "none"
    /\ panicked = FALSE

\* Decompressor::new: either type, any accepted media type, any source.
InitDecomp ==
    /\ impl \in Impls
    /\ media \in MediaTypes
    /\ src \in Sources
    /\ errAt \in 0..(Len(src) + 1)
    /\ decoder = [pos |-> 0, done |-> FALSE, inFrame |-> FALSE]
    /\ reads = 0
    /\ dcPc = "open"
    /\ finished = FALSE
    /\ finishResult = "none"
    /\ panicked = FALSE

(***************************************************************************)
(*        crates/lib/src/install.rs: setup_composefs_uki_boot              *)
(***************************************************************************)
\* Deployment ids (composefs image digests).
Ids == 1..MaxIds

\* ComposefsBootEntry
EntryVariants == {"Type1", "Type2", "UsrLibModulesUki", "UsrLibModulesVmLinuz"}

\* BootSetupType
SetupTypes == {"Setup", "Upgrade"}

\* The function has returned or unwound.
UkiReturned == ukiPc \in {"ok", "err", "panic"}

\* setup_composefs_uki_boot is called: the root path and the ESP device are
\* worked out from the setup type (an error if no ESP is found), and whether
\* <root>/esp exists is noted.  opt is composefs_options.insecure of the
\* install options (None on an upgrade).
UkiCall(setup, entry, id, cid, cins, opt, existed, espOk) ==
    /\ ukiPc = "idle"
    /\ setup = "Upgrade" => opt = "none"
    /\ ukiSetup' = setup
    /\ ukiEntry' = entry
    /\ ukiId' = id
    /\ cmdId' = cid
    /\ cmdInsecure' = cins
    /\ optInsecure' = opt
    /\ mpExisted' = existed
    /\ mpExists' = existed
    /\ ukiPc' = IF espOk THEN "resolved" ELSE "err"
    /\ UNCHANGED <<espMounted, everMounted, espUki, warned>>
    /\ UNCHANGED notUki

\* create_dir_all(<root>/esp) and `mount <esp> <root>/esp`.
UkiMount(mkdirOk, mountOk) ==
    /\ ukiPc = "resolved"
    /\ mpExists' = (mpExists \/ mkdirOk)
    /\ espMounted' = (mkdirOk /\ mountOk)
    /\ everMounted' = (mkdirOk /\ mountOk)
    /\ ukiPc' = IF mkdirOk /\ mountOk THEN "mounted" ELSE "err"
    /\ UNCHANGED <<ukiSetup, ukiEntry, ukiId, cmdId, cmdInsecure, optInsecure,
                   mpExisted, espUki, warned>>
    /\ UNCHANGED notUki

\* The warning about --insecure and the `?` of the UKI's composefs= value.
InsecureWarning(opt, cins) ==
    \/ opt = "true" /\ ~cins
    \/ opt = "false" /\ cins

\* Faulty variant of ComposefsMismatch: the id is not compared.
ComposefsMismatchIgnored(cid, id) == FALSE

\* `composefs_cmdline != *id`: the id of the UKI's composefs= karg, as
\* get_cmdline_composefs returns it (without the `?`), against the
\* deployment id.
ComposefsMismatch(cid, id) == cid # id

\* The match on the entry.  The variants other than Type2 are
\* unimplemented!().  For Type2 the fallible steps are, in order: 1 read the
\* UKI, 2 get its cmdline, 3 get composefs= from it, 4 get the boot label,
\* (the id check), 5 create EFI/Linux, 6 open it, 7 write <id>.efi, 8 fsync;
\* failAt is the one that fails (0: none).
UkiEntry(failAt) ==
    /\ ukiPc = "mounted"
    /\ IF ukiEntry # "Type2"
       THEN /\ ukiPc' = "panic"
            /\ UNCHANGED <<espUki, warned>>
       ELSE LET reached(k) == failAt = 0 \/ failAt > k
                mismatch == ComposefsMismatch(cmdId, ukiId)
                written == reached(7) /\ ~mismatch
            IN  /\ warned' = (reached(3) /\ InsecureWarning(optInsecure, cmdInsecure))
                /\ espUki' = IF written THEN espUki \cup {ukiId} ELSE espUki
                /\ ukiPc' = IF failAt = 0 /\ ~mismatch THEN "written" ELSE "err"
    /\ UNCHANGED <<ukiSetup, ukiEntry, ukiId, cmdId, cmdInsecure, optInsecure,
                   espMounted, everMounted, mpExisted, mpExists>>
    /\ UNCHANGED notUki

\* `umount <root>/esp`, and remove_dir of a mount point that did not exist
\* before (its failure is logged only).
UkiUnmount(umountOk, rmOk) ==
    /\ ukiPc = "written"
    /\ IF ~umountOk
       THEN /\ ukiPc' = "err"
            /\ UNCHANGED <<espMounted, mpExists>>
       ELSE /\ espMounted' = FALSE
            /\ mpExists' = IF ~mpExisted /\ rmOk THEN FALSE ELSE mpExists
            /\ ukiPc' = "unmounted"
    /\ UNCHANGED <<ukiSetup, ukiEntry, ukiId, cmdId, cmdInsecure, optInsecure,
                   everMounted, mpExisted, espUki, warned>>
    /\ UNCHANGED notUki

\* The grub2 user.cfg (and efiuuid.cfg on an install) is written.
UkiGrub(ok) ==
    /\ ukiPc = "unmounted"
    /\ ukiPc' = IF ok THEN "ok" ELSE "err"
    /\ UNCHANGED <<ukiSetup, ukiEntry, ukiId, cmdId, cmdInsecure, optInsecure,
                   espMounted, everMounted, mpExisted, mpExists, espUki, warned>>
    /\ UNCHANGED notUki

UkiBody ==
    \/ \E mkdirOk \in BOOLEAN, mountOk \in BOOLEAN : UkiMount(mkdirOk, mountOk)
    \/ \E failAt \in 0..8 : UkiEntry(failAt)
    \/ \E umountOk \in BOOLEAN, rmOk \in BOOLEAN : UkiUnmount(umountOk, rmOk)
    \/ \E ok \in BOOLEAN : UkiGrub(ok)

NextUki ==
    \/ \E setup \in SetupTypes, entry \in EntryVariants, id \in Ids,
          cid \in Ids, cins \in BOOLEAN, opt \in {"none", "true", "false"},
          existed \in BOOLEAN, espOk \in BOOLEAN :
            UkiCall(setup, entry, id, cid, cins, opt, existed, espOk)
    \/ UkiBody

IdleUki ==
    /\ ukiPc = "idle"
    /\ ukiSetup = "Setup"
    /\ ukiEntry = "Type2"
    /\ ukiId = 1
    /\ cmdId = 1
    /\ cmdInsecure = FALSE
    /\ optInsecure = "none"
    /\ espMounted = FALSE
    /\ everMounted = FALSE
    /\ mpExisted = FALSE
    /\ mpExists = FALSE
    /\ espUki = {}
    /\ warned = FALSE

(***************************************************************************)
(*  crates/lib/src/install.rs: setup_composefs_boot, write_composefs_state *)
(***************************************************************************)
\* BootType::from(&ComposefsBootEntry)
BootTypeOf(entry) ==
    CASE entry = "Type1"                -> "bls"
      [] entry = "Type2"                -> "uki"
      [] entry = "UsrLibModulesUki"     -> "uki"
      [] entry = "UsrLibModulesVmLinuz" -> "bls"

\* setup_composefs_boot up to the match on the boot type: the bootloader is
\* installed, the repository opened, the image committed and its first boot
\* entry taken; any of these may fail (ok is false), and an image without
\* boot entries (entry = "none") is an error.
SbStart(id, entry, ok) ==
    /\ sbPc = "idle"
    /\ sbId' = id
    /\ sbEntry' = entry
    /\ sbPc' = IF ok /\ entry # "none" THEN "writer" ELSE "err"
    /\ UNCHANGED <<deployDirs, varLinks, originFile, blsEntries, stagedId>>
    /\ UNCHANGED notState

\* BootType::Uki: setup_composefs_uki_boot(Setup, repo, id, entry).
SbCallUki(cid, cins, opt, existed, espOk) ==
    /\ sbPc = "writer"
    /\ BootTypeOf(sbEntry) = "uki"
    /\ ukiPc = "idle"
    /\ ukiSetup' = "Setup"
    /\ ukiEntry' = sbEntry
    /\ ukiId' = sbId
    /\ cmdId' = cid
    /\ cmdInsecure' = cins
    /\ optInsecure' = opt
    /\ mpExisted' = existed
    /\ mpExists' = existed
    /\ ukiPc' = IF espOk THEN "resolved" ELSE "err"
    /\ UNCHANGED <<espMounted, everMounted, espUki, warned>>
    /\ UNCHANGED <<loopVars, verVars, fetchVars, decompVars, stateVars, blsVars,
                   installVars, statusVars, rootdirVars,
                   ordVars, parseVars, kargsVars, sizeVars, diskVars, prepVars>>

\* BootType::Bls: setup_composefs_bls_boot(Setup, repo, id, entry).  The
\* variants other than UsrLibModulesVmLinuz are unimplemented!(); otherwise
\* the entry is written under loader/entries, or a step fails before that.
SbCallBls(ok) ==
    /\ sbPc = "writer"
    /\ BootTypeOf(sbEntry) = "bls"
    /\ IF sbEntry # "UsrLibModulesVmLinuz"
       THEN /\ sbPc' = "panic"
            /\ UNCHANGED blsEntries
       ELSE /\ sbPc' = IF ok THEN "state" ELSE "err"
            /\ blsEntries' = IF ok THEN blsEntries \cup {sbId} ELSE blsEntries
    /\ UNCHANGED <<sbId, sbEntry, deployDirs, varLinks, originFile, stagedId>>
    /\ UNCHANGED notState

\* setup_composefs_uki_boot has returned: `?` on its result.
SbUkiDone ==
    /\ sbPc = "writer"
    /\ BootTypeOf(sbEntry) = "uki"
    /\ UkiReturned
    /\ sbPc' = CASE ukiPc = "ok"    -> "state"
                 [] ukiPc = "err"   -> "err"
                 [] ukiPc = "panic" -> "panic"
    /\ UNCHANGED <<sbId, sbEntry, deployDirs, varLinks, originFile, blsEntries,
                   stagedId>>
    /\ UNCHANGED notState

\* write_composefs_state: the originFile file is written when no earlier step
\* failed.  The fallible steps are, in order: 1 create etc/upper (which makes
\* state/deploy/<id>), 2 create etc/work, 3 create the shared var, 4 symlink
\* var, 5 open the state directory, 6 write <id>.originFile, 7 write the staged
\* deployment file (when staged); f is the one that fails (0: none).
OriginWritten(f) == f = 0 \/ f > 6

\* write_composefs_state(root, id, imgref, staged, boot_type, boot_digest).
\* The symlink fails when state/deploy/<id>/var exists.
write_composefs_state(id, staged, boot_type, failAt) ==
    LET f == IF id \in varLinks /\ (failAt = 0 \/ failAt > 4) THEN 4
             ELSE IF failAt = 7 /\ ~staged THEN 0
             ELSE failAt
    IN  /\ deployDirs' = IF f = 1 THEN deployDirs ELSE deployDirs \cup {id}
        /\ varLinks' = IF f \in 1..4 THEN varLinks ELSE varLinks \cup {id}
        /\ originFile' = IF OriginWritten(f)
                     THEN [originFile EXCEPT ![id] = boot_type]
                     ELSE originFile
        /\ stagedId' = IF staged /\ f = 0 THEN id ELSE stagedId
        /\ sbPc' = IF f = 0 THEN "ok" ELSE "err"

\* setup_composefs_boot: write_composefs_state(.., false, boot_type, ..).
SbWriteState(failAt) ==
    /\ sbPc = "state"
    /\ write_composefs_state(sbId, FALSE, BootTypeOf(sbEntry), failAt)
    /\ UNCHANGED <<sbId, sbEntry, blsEntries>>
    /\ UNCHANGED notState

NextState ==
    \/ \E id \in Ids, entry \in EntryVariants \cup {"none"}, ok \in BOOLEAN :
            SbStart(id, entry, ok)
    \/ \E cid \in Ids, cins \in BOOLEAN, opt \in {"none", "true", "false"},
          existed \in BOOLEAN, espOk \in BOOLEAN :
            SbCallUki(cid, cins, opt, existed, espOk)
    \/ UkiBody
    \/ \E ok \in BOOLEAN : SbCallBls(ok)
    \/ SbUkiDone
    \/ \E failAt \in 0..7 : SbWriteState(failAt)

IdleState ==
    /\ sbPc = "idle"
    /\ sbId = 1
    /\ sbEntry = "none"
    /\ deployDirs = {}
    /\ varLinks = {}
    /\ originFile = [i \in Ids |-> "none"]
    /\ blsEntries = {}
    /\ stagedId = 0

\* A target with no deployment, or with the deployment of an earlier install.
InitState ==
    /\ sbPc = "idle"
    /\ sbId = 1
    /\ sbEntry = "none"
    /\ \E old \in SUBSET {1} :
        /\ deployDirs = old
        /\ varLinks = old
        /\ originFile = [i \in Ids |-> IF i \in old THEN "bls" ELSE "none"]
        /\ blsEntries = old
    /\ stagedId = 0

(***************************************************************************)
(*        crates/lib/src/parsers/bls_config.rs: Ord for BLSConfig          *)
(***************************************************************************)
\* Option<T>: None is the empty sequence, Some(v) the sequence of v alone.
None == <<>>
Some(v) == <<v>>

\* Ord::cmp of two strings (or versions) held as numbers in their order.
CmpVal(a, b) ==
    IF a < b THEN "Less" ELSE IF a > b THEN "Greater" ELSE "Equal"

\* Ordering::reverse
Reverse(o) ==
    CASE o = "Less" -> "Greater" [] o = "Greater" -> "Less" [] OTHER -> o

\* <BLSConfig as Ord>::cmp: the sort keys when both sides have one, then the
\* machine ids when both sides have one, then the versions, reversed.
cmp(a, b) ==
    LET sk == IF a.sort_key # None /\ b.sort_key # None
              THEN CmpVal(a.sort_key[1], b.sort_key[1]) ELSE "Equal"
        mid == IF a.machine_id # None /\ b.machine_id # None
               THEN CmpVal(a.machine_id[1], b.machine_id[1]) ELSE "Equal"
    IN  IF sk # "Equal" THEN sk
        ELSE IF mid # "Equal" THEN mid
        ELSE Reverse(CmpVal(a.version, b.version))

\* BLSConfig values, as far as Ord looks at them.
OrdConfigs ==
    [sort_key : {None} \cup {Some(k) : k \in 0..MaxKey},
     machine_id : {None} \cup {Some(k) : k \in 0..MaxKey},
     version : 0..MaxVersion]

\* Three configs are compared with each other, as a sort does.
OrdCompare ==
    /\ ordPc = "idle"
    /\ ordRes' = [ab |-> cmp(ordA, ordB), ba |-> cmp(ordB, ordA),
                  bc |-> cmp(ordB, ordC), ac |-> cmp(ordA, ordC)]
    /\ ordPc' = "compared"
    /\ UNCHANGED <<ordA, ordB, ordC>>
    /\ UNCHANGED notOrd

NextOrd == OrdCompare

IdleOrd ==
    /\ ordPc = "idle"
    /\ ordA = [sort_key |-> None, machine_id |-> None, version |-> 0]
    /\ ordB = ordA
    /\ ordC = ordA
    /\ ordRes = [ab |-> "Equal", ba |-> "Equal", bc |-> "Equal", ac |-> "Equal"]

InitOrd ==
    /\ ordPc = "idle"
    /\ ordA \in OrdConfigs
    /\ ordB \in OrdConfigs
    /\ ordC \in OrdConfigs
    /\ ordRes = [ab |-> "Equal", ba |-> "Equal", bc |-> "Equal", ac |-> "Equal"]

(***************************************************************************)
(*   crates/lib/src/parsers/bls_config.rs: Display and parse_bls_config    *)
(***************************************************************************)
\* Strings are sequences of characters: "a" is any character that is neither
\* white space nor `#`.  A key of the file format is one character of its own.
ValueChars == {"a", " "}

Strings == UNION {[1..n -> ValueChars] : n \in 0..MaxStrLen}

\* str::trim
RECURSIVE TrimStart(_)
TrimStart(s) ==
    IF s # <<>> /\ Head(s) = " " THEN TrimStart(Tail(s)) ELSE s

RECURSIVE TrimEnd(_)
TrimEnd(s) ==
    IF s # <<>> /\ s[Len(s)] = " " THEN TrimEnd(SubSeq(s, 1, Len(s) - 1))
    ELSE s

Trim(s) == TrimEnd(TrimStart(s))

\* writeln!(f, "<key> {}", value): one line of the output.
Line(key, value) == <<key, " ">> \o value

\* The line of an optional field, if any.
OptLine(key, opt) == IF opt = None THEN <<>> ELSE <<Line(key, opt[1])>>

\* <BLSConfig as Display>::fmt: the lines written, in order.
fmt(cfg) ==
    OptLine("title", cfg.title)
    \o <<Line("version", cfg.version)>>
    \o <<Line("linux", cfg.linux)>>
    \o [i \in 1..Len(cfg.initrd) |-> Line("initrd", cfg.initrd[i])]
    \o OptLine("options", cfg.options)
    \o OptLine("machine-id", cfg.machine_id)
    \o OptLine("sort-key", cfg.sort_key)
    \o (IF cfg.extra = None THEN <<>>
        ELSE <<Line(cfg.extra[1].key, cfg.extra[1].value)>>)

\* str::split_once(' '): the position of the first space (0: there is none).
FirstSpace(s) ==
    IF \E i \in 1..Len(s) : s[i] = " "
    THEN CHOOSE i \in 1..Len(s) : s[i] = " " /\ \A j \in 1..(i - 1) : s[j] # " "
    ELSE 0

\* The body of the loop of parse_bls_config for one line: the fields so far
\* and the fields after it.
ParseLine(acc, raw) ==
    LET line == Trim(raw)
        at == FirstSpace(line)
        key == SubSeq(line, 1, at - 1)
        value == Trim(SubSeq(line, at + 1, Len(line)))
    IN  IF line = <<>> \/ Head(line) = "#" \/ at = 0 THEN acc
        ELSE CASE key = <<"title">>      -> [acc EXCEPT !.title = Some(value)]
               [] key = <<"version">>    -> [acc EXCEPT !.version = Some(value)]
               [] key = <<"linux">>      -> [acc EXCEPT !.linux = Some(value)]
               [] key = <<"initrd">>     -> [acc EXCEPT !.initrd = Append(@, value)]
               [] key = <<"options">>    -> [acc EXCEPT !.options = Some(value)]
               [] key = <<"machine-id">> -> [acc EXCEPT !.machine_id = Some(value)]
               [] key = <<"sort-key">>   -> [acc EXCEPT !.sort_key = Some(value)]
               [] OTHER -> [acc EXCEPT !.extra =
                                Some([key |-> key[1], value |-> value])]

RECURSIVE ParseLines(_, _, _)
ParseLines(acc, lines, i) ==
    IF i > Len(lines) THEN acc
    ELSE ParseLines(ParseLine(acc, lines[i]), lines, i + 1)

\* parse_bls_config(input): Err when linux or version is missing.
parse_bls_config(lines) ==
    LET acc == ParseLines([title |-> None, version |-> None, linux |-> None,
                           initrd |-> <<>>, options |-> None,
                           machine_id |-> None, sort_key |-> None,
                           extra |-> None], lines, 1)
    IN  IF acc.linux = None \/ acc.version = None
        THEN [ok |-> FALSE, cfg |-> acc]
        ELSE [ok |-> TRUE,
              cfg |-> [acc EXCEPT !.linux = acc.linux[1],
                                  !.version = acc.version[1]]]

\* BLSConfig values: any strings in title, version and linux; the other
\* optional fields absent or present; none, one or two initrds; no extra
\* field or one.
Configs ==
    [title : {None} \cup {Some(s) : s \in Strings},
     version : Strings,
     linux : Strings,
     initrd : {<<>>, <<(<<"a">>)>>, <<(<<"a">>), (<<"a", "a">>)>>},
     options : {None, Some(<<"a", " ", "a">>)},
     machine_id : {None, Some(<<"a">>)},
     sort_key : {None, Some(<<"a">>)},
     extra : {None, Some([key |-> "custom", value |-> <<"a">>])}]

\* cfg.to_string()
RtFormat ==
    /\ rtPc = "cfg"
    /\ rtText' = fmt(rtCfg)
    /\ rtPc' = "text"
    /\ UNCHANGED <<rtCfg, rtParsed>>
    /\ UNCHANGED notParse

\* parse_bls_config(&text)
RtParse ==
    /\ rtPc = "text"
    /\ rtParsed' = parse_bls_config(rtText)
    /\ rtPc' = "parsed"
    /\ UNCHANGED <<rtCfg, rtText>>
    /\ UNCHANGED notParse

NextParse ==
    \/ RtFormat
    \/ RtParse

IdleParse ==
    /\ rtPc = "cfg"
    /\ rtCfg = [title |-> None, version |-> <<>>, linux |-> <<>>,
                initrd |-> <<>>, options |-> None, machine_id |-> None,
                sort_key |-> None, extra |-> None]
    /\ rtText = <<>>
    /\ rtParsed = [ok |-> FALSE, cfg |-> rtCfg]

InitParse ==
    /\ rtPc = "cfg"
    /\ rtCfg \in Configs
    /\ rtText = <<>>
    /\ rtParsed = [ok |-> FALSE, cfg |-> rtCfg]

(***************************************************************************)
(*        crates/lib/src/kernel_cmdline.rs: Parameter and its equality     *)
(***************************************************************************)
\* Bytes of a parameter: "a" is any byte other than the four named ones.
ParamBytes == {"a", "-", "_", "=", "\""}

ParamInputs == UNION {[1..n -> ParamBytes] : n \in 0..MaxParamLen}

\* The closure `dedashed` over a byte sequence.
Dedashed(s) == [i \in 1..Len(s) |-> IF s[i] = "-" THEN "_" ELSE s[i]]

\* slice.strip_prefix(b"\"").unwrap_or(slice)
StripPrefixQuote(s) == IF s # <<>> /\ Head(s) = "\"" THEN Tail(s) ELSE s

\* Parameter::from(input): split at the first `=`; the value loses a leading
\* quote and then a trailing one, and is the whole text after `=` when,
\* after the first step, no trailing quote is found.
ParameterFrom(input) ==
    LET eqs == {i \in 1..Len(input) : input[i] = "="} IN
    IF eqs = {}
    THEN [parameter |-> input, key |-> input, value |-> None]
    ELSE LET i == CHOOSE k \in eqs : \A j \in eqs : k <= j
             raw == SubSeq(input, i + 1, Len(input))
             v1 == StripPrefixQuote(raw)
             v2 == IF v1 # <<>> /\ v1[Len(v1)] = "\""
                   THEN SubSeq(v1, 1, Len(v1) - 1) ELSE raw
         IN  [parameter |-> input, key |-> SubSeq(input, 1, i - 1),
              value |-> Some(v2)]

\* Faulty variant of ParameterKeyEq: the bytes are compared as they are.
ParameterKeyEqExact(k1, k2) == k1 = k2

\* <ParameterKey as PartialEq>::eq
ParameterKeyEq(k1, k2) == Dedashed(k1) = Dedashed(k2)

\* <Parameter as PartialEq>::eq
ParameterEq(p1, p2) == ParameterKeyEq(p1.key, p2.key) /\ p1.value = p2.value

\* Two parameters are parsed and compared.
ParamCompare ==
    /\ kpPc = "idle"
    /\ kpEq' = ParameterEq(ParameterFrom(kpA), ParameterFrom(kpB))
    /\ kpPc' = "compared"
    /\ UNCHANGED <<kpA, kpB>>
    /\ UNCHANGED notKargs

NextKargs == ParamCompare

IdleKargs ==
    /\ kpPc = "idle"
    /\ kpA = <<>>
    /\ kpB = <<>>
    /\ kpEq = FALSE

InitKargs ==
    /\ kpPc = "idle"
    /\ kpA \in ParamInputs
    /\ kpB \in ParamInputs
    /\ kpEq = FALSE

(***************************************************************************)
(*        crates/blockdev/src/blockdev.rs: parse_size_mib                  *)
(***************************************************************************)
\* Characters of a size string: two digits, the letters of the suffixes, and
\* "X" for any other character.
SizeChars == {"0", "1", "M", "i", "B", "G", "T", "X"}

SizeInputs == UNION {[1..n -> SizeChars] : n \in 0..MaxSizeLen}

\* The table `suffixes`, in its order.
suffixes ==
    << [suffix |-> <<"M", "i", "B">>, imul |-> 1],
       [suffix |-> <<"M">>, imul |-> 1],
       [suffix |-> <<"G", "i", "B">>, imul |-> 1024],
       [suffix |-> <<"G">>, imul |-> 1024],
       [suffix |-> <<"T", "i", "B">>, imul |-> 1024 * 1024],
       [suffix |-> <<"T">>, imul |-> 1024 * 1024] >>

\* The positions at which pat occurs in s.
Occurrences(s, pat) ==
    {i \in 1..(Len(s) - Len(pat) + 1) : SubSeq(s, i, i + Len(pat) - 1) = pat}

\* str::rsplit_once(pat): None, or the text before and the text after the
\* last occurrence.
rsplit_once(s, pat) ==
    IF Occurrences(s, pat) = {} THEN None
    ELSE LET i == CHOOSE k \in Occurrences(s, pat) :
                        \A j \in Occurrences(s, pat) : j <= k
         IN  Some([sv |-> SubSeq(s, 1, i - 1),
                   rest |-> SubSeq(s, i + Len(pat), Len(s))])

\* The value of a digit.
DigitValue(c) == IF c = "1" THEN 1 ELSE 0

\* str::parse::<u64>() on a string of digits.
RECURSIVE DecimalValue(_)
DecimalValue(s) ==
    IF s = <<>> THEN 0
    ELSE 10 * DecimalValue(SubSeq(s, 1, Len(s) - 1)) + DigitValue(s[Len(s)])

\* Whether str::parse::<u64>() succeeds: one digit or more, nothing else.
IsDecimal(s) == s # <<>> /\ \A i \in 1..Len(s) : s[i] \in {"0", "1"}

\* One iteration of the loop over the suffixes.
SizeSuffix ==
    /\ psPc = "loop"
    /\ psIdx <= Len(suffixes)
    /\ LET r == rsplit_once(psS, suffixes[psIdx].suffix) IN
        IF r = None
        THEN /\ psIdx' = psIdx + 1
             /\ UNCHANGED <<psS, psMul, psPc>>
        ELSE IF r[1].rest # <<>>
        THEN /\ psPc' = "err"
             /\ UNCHANGED <<psS, psMul, psIdx>>
        ELSE /\ psS' = r[1].sv
             /\ psMul' = suffixes[psIdx].imul
             /\ psIdx' = psIdx + 1
             /\ UNCHANGED psPc
    /\ UNCHANGED <<psIn, psVal>>
    /\ UNCHANGED notSize

\* After the loop: `s.parse::<u64>()?` and `Ok(v * mul)`.
SizeParse ==
    /\ psPc = "loop"
    /\ psIdx > Len(suffixes)
    /\ IF IsDecimal(psS)
       THEN /\ psVal' = DecimalValue(psS) * psMul
            /\ psPc' = "ok"
       ELSE /\ psPc' = "err"
            /\ UNCHANGED psVal
    /\ UNCHANGED <<psIn, psS, psMul, psIdx>>
    /\ UNCHANGED notSize

NextSize ==
    \/ SizeSuffix
    \/ SizeParse

IdleSize ==
    /\ psPc = "loop"
    /\ psIn = <<>>
    /\ psS = <<>>
    /\ psMul = 1
    /\ psIdx = 1
    /\ psVal = 0

InitSize ==
    /\ psPc = "loop"
    /\ psIn \in SizeInputs
    /\ psS = psIn
    /\ psMul = 1
    /\ psIdx = 1
    /\ psVal = 0

(***************************************************************************)
(*        crates/lib/src/install.rs: setup_composefs_bls_boot              *)
(***************************************************************************)
\* Boot digests (SHA-256 of vmlinuz + initrd).
Digests == {1, 2}

\* No file, no entry.
NoEntry == [sort_key |-> None, machine_id |-> None, version |-> 0, title |-> 0,
            linuxAt |-> 0, initrdAt |-> 0, insecure |-> FALSE, cfsId |-> 0]

\* A BLSConfig of a deployment: the sort key, the machine id, the version
\* (strings, held as numbers in their order; BLSConfig::default() has the
\* empty version, the least), the title (a deployment id), the deployment
\* whose /boot/<id>/ directory linux and initrd name, and the composefs= karg
\* of the options (its `?` and its id).
BlsEntry(sk, mid, ver, title, at, ins, id) ==
    [sort_key |-> sk, machine_id |-> mid, version |-> ver, title |-> title,
     linuxAt |-> at, initrdAt |-> at, insecure |-> ins, cfsId |-> id]

\* "bootc-composefs-<sort_key>.conf"
EntryFileName(cfg) == cfg.sort_key

\* Dir::atomic_write(name, contents) in a directory held as a set of
\* [file, cfg]: a file of that name is replaced.
AtomicWrite(dir, cfg) ==
    {f \in dir : f.file # EntryFileName(cfg)}
        \cup {[file |-> EntryFileName(cfg), cfg |-> cfg]}

\* Faulty variant of CmdlineInsecure: the `?` is never written.
CmdlineInsecureNever(setup, opt) == FALSE

\* Whether the composefs= karg gets the `?`: on Setup when
\* state.composefs_options is Some(opt) with opt.insecure; never on Upgrade.
CmdlineInsecure(setup, opt) == setup = "Setup" /\ opt = "true"

\* find_vmlinuz_initrd_duplicates(digest): the deployments under
\* /sysroot/state/deploy whose origin has this boot digest; the function
\* returns the first one the directory iteration meets, or None.
Duplicates(digest) == {i \in Ids : sysrootDeploy[i] = digest}

\* The function has returned or unwound.
BlsReturned == blsPc \in {"ok", "err", "panic"}

\* setup_composefs_bls_boot is called.  On Upgrade the root is /sysroot and
\* there are no install options.
BlsCall(setup, entry, id, opt, digest) ==
    /\ blsPc = "idle"
    /\ setup = "Upgrade" => opt = "none" /\ targetDeploy = sysrootDeploy
    /\ setup = "Setup" => targetDeploy = [i \in Ids |-> 0]
    /\ blsSetup' = setup
    /\ blsVariant' = entry
    /\ blsId' = id
    /\ blsOpt' = opt
    /\ blsDigest' = digest
    /\ blsPc' = "called"
    /\ UNCHANGED <<repoInsecure, targetDeploy, sysrootDeploy, bootFiles,
                   bootedBls, blsWritten, entriesDir, stagedDir>>
    /\ UNCHANGED notBls

\* The body.  The variants other than UsrLibModulesVmLinuz are
\* unimplemented!().  Otherwise the fallible steps are, in order: 1 compute
\* the boot digest, 2 scan for a duplicate, 3 write vmlinuz and initrd (when
\* there is no duplicate), 4 get the booted entry (on Upgrade), 5 create and
\* open the entries directory, 6 write the new entry, 7 write the booted
\* entry (on Upgrade), 8 fsync; failAt is the one that fails (0: none).  dup
\* is the duplicate the scan meets first (0: none).
BlsBody(failAt, dup) ==
    /\ blsPc = "called"
    /\ IF Duplicates(blsDigest) = {} THEN dup = 0 ELSE dup \in Duplicates(blsDigest)
    /\ IF blsVariant # "UsrLibModulesVmLinuz"
       THEN /\ blsPc' = "panic"
            /\ UNCHANGED <<bootFiles, blsWritten, entriesDir, stagedDir>>
       ELSE LET upgrade == blsSetup = "Upgrade"
                f0 == IF failAt = 3 /\ dup # 0 THEN 0
                      ELSE IF failAt \in {4, 7} /\ ~upgrade THEN 0
                      ELSE failAt
                f == IF upgrade /\ bootedBls = NoEntry /\ (f0 = 0 \/ f0 > 4)
                     THEN 4 ELSE f0
                reached(k) == f = 0 \/ f > k
                cfg == BlsEntry(Some(1), None, 0, blsId,
                                IF dup # 0 THEN dup ELSE blsId,
                                CmdlineInsecure(blsSetup, blsOpt), blsId)
                booted == [bootedBls EXCEPT !.sort_key = Some(0)]
                dir == IF upgrade THEN stagedDir ELSE entriesDir
                dir1 == IF reached(6) THEN AtomicWrite(dir, cfg) ELSE dir
                dir2 == IF reached(7) /\ upgrade THEN AtomicWrite(dir1, booted)
                        ELSE dir1
            IN  /\ bootFiles' = IF reached(3) /\ dup = 0
                                THEN bootFiles \cup {blsId} ELSE bootFiles
                /\ blsWritten' = IF reached(6) THEN cfg ELSE blsWritten
                /\ entriesDir' = IF upgrade THEN entriesDir ELSE dir2
                /\ stagedDir' = IF upgrade THEN dir2 ELSE stagedDir
                /\ blsPc' = IF f = 0 THEN "ok" ELSE "err"
    /\ UNCHANGED <<blsSetup, blsVariant, blsId, blsOpt, blsDigest,
                   repoInsecure, targetDeploy, sysrootDeploy, bootedBls>>
    /\ UNCHANGED notBls

NextBls ==
    \/ \E setup \in SetupTypes, entry \in EntryVariants, id \in Ids,
          opt \in {"none", "true", "false"}, digest \in Digests :
            BlsCall(setup, entry, id, opt, digest)
    \/ \E failAt \in 0..8, dup \in 0..MaxIds : BlsBody(failAt, dup)

IdleBls ==
    /\ blsPc = "idle"
    /\ blsSetup = "Setup"
    /\ blsVariant = "UsrLibModulesVmLinuz"
    /\ blsId = 1
    /\ blsOpt = "none"
    /\ blsDigest = 1
    /\ repoInsecure = FALSE
    /\ targetDeploy = [i \in Ids |-> 0]
    /\ sysrootDeploy = [i \in Ids |-> 0]
    /\ bootFiles = {}
    /\ bootedBls = NoEntry
    /\ blsWritten = NoEntry
    /\ entriesDir = {}
    /\ stagedDir = {}

\* The host the program runs on has any deployments under
\* /sysroot/state/deploy (per id: 0 for none, or the boot digest of its
\* origin).  The target root is /sysroot itself, with the booted entry in its
\* loader/entries, or a new filesystem.  The composefs repository is in
\* insecure mode or not.
InitBls ==
    /\ blsPc = "idle"
    /\ blsSetup = "Setup"
    /\ blsVariant = "UsrLibModulesVmLinuz"
    /\ blsId = 1
    /\ blsOpt = "none"
    /\ blsDigest = 1
    /\ repoInsecure \in BOOLEAN
    /\ sysrootDeploy \in [Ids -> {0} \cup Digests]
    /\ targetDeploy \in {sysrootDeploy, [i \in Ids |-> 0]}
    /\ bootFiles = {i \in Ids : targetDeploy[i] # 0}
    /\ bootedBls \in {NoEntry} \cup
            {BlsEntry(sk, mid, ver, b, b, ins, b) :
                sk \in {Some(0), Some(1)}, mid \in {None, Some(1)},
                ver \in 0..1, b \in {i \in Ids : targetDeploy[i] # 0},
                ins \in BOOLEAN}
    /\ blsWritten = NoEntry
    /\ entriesDir = IF bootedBls = NoEntry THEN {}
                    ELSE {[file |-> EntryFileName(bootedBls), cfg |-> bootedBls]}
    /\ stagedDir = {}

(***************************************************************************)
(*   crates/lib/src/status.rs: get_status, composefs_deployment_status     *)
(***************************************************************************)
\* The deployments on disk, in the order the sysroot (or the directory
\* iteration) yields them: n of them, the i-th with id i.
DeploymentLists ==
    UNION {[1..n -> [id : 1..MaxDepls, osname : {"a", "b"}, staged : BOOLEAN]] :
            n \in 0..MaxDepls}

\* A host status with nothing in it.
EmptyStatus == [booted |-> None, staged |-> None, rollback |-> None,
                other |-> <<>>]

\* The ids of a sequence of deployments.
IdsOf(ds) == [i \in 1..Len(ds) |-> ds[i].id]

\* The first element of a sequence as an Option, as pop_front returns it.
PopFront(s) == IF s = <<>> THEN None ELSE Some(s[1])

\* get_status(sysroot, booted_deployment), up to the conversion of the
\* deployments into boot entries: booted is the index of the booted
\* deployment (0: None).
get_status(ds, booted) ==
    LET related0 == SelectSeq(ds, LAMBDA d : booted # 0 /\ d.osname = ds[booted].osname)
        others == SelectSeq(ds, LAMBDA d : ~(booted # 0 /\ d.osname = ds[booted].osname))
        stagedAt == {i \in 1..Len(related0) : related0[i].staged}
        first == IF stagedAt = {} THEN 0
                 ELSE CHOOSE i \in stagedAt : \A j \in stagedAt : i <= j
        staged == IF first = 0 THEN None ELSE Some(related0[first].id)
        related1 == [i \in 1..(Len(related0) - (IF first = 0 THEN 0 ELSE 1)) |->
                        IF first # 0 /\ i >= first THEN related0[i + 1]
                        ELSE related0[i]]
        related2 == SelectSeq(related1, LAMBDA d : ~(booted # 0 /\ d.id = ds[booted].id))
        rollback == PopFront(IdsOf(related2))
        rest == IF related2 = <<>> THEN <<>> ELSE Tail(related2)
    IN  [booted |-> IF booted = 0 THEN None ELSE Some(ds[booted].id),
         staged |-> staged,
         rollback |-> rollback,
         other |-> IdsOf(rest \o others)]

\* get_status on an ostree system; the conversion of a deployment into a boot
\* entry may fail.
OstreeStatus(ok) ==
    /\ hsPc = "idle"
    /\ hsBackend = "ostree"
    /\ hsStatus' = IF ok THEN get_status(hsDepls, hsBooted) ELSE hsStatus
    /\ hsPc' = IF ok THEN "ok" ELSE "err"
    /\ UNCHANGED <<hsBackend, hsDepls, hsBooted, hsStagedFile, hsIdx>>
    /\ UNCHANGED notStatus

\* composefs_deployment_status up to its loop: the kernel cmdline, /sysroot
\* and the staged-deployment file are read.
ComposefsStatusStart(ok) ==
    /\ hsPc = "idle"
    /\ hsBackend = "composefs"
    /\ hsIdx' = 1
    /\ hsPc' = IF ok THEN "loop" ELSE "err"
    /\ UNCHANGED <<hsBackend, hsDepls, hsBooted, hsStagedFile, hsStatus>>
    /\ UNCHANGED notStatus

\* Faulty variant of ComposefsPlace: the booted deployment is not recognised.
ComposefsPlaceNoBooted(st, id, booted, stagedFile) ==
    IF stagedFile = id THEN [st EXCEPT !.staged = Some(id)]
    ELSE [st EXCEPT !.rollback = Some(id)]

\* The tail of the loop body: where the deployment id goes in the status.
ComposefsPlace(st, id, booted, stagedFile) ==
    IF id = booted THEN [st EXCEPT !.booted = Some(id)]
    ELSE IF stagedFile = id THEN [st EXCEPT !.staged = Some(id)]
    ELSE [st EXCEPT !.rollback = Some(id)]

\* One iteration of the loop over state/deploy: the origin is read and made
\* into a boot entry (which may fail), and the entry is placed.
ComposefsStatusEntry(ok) ==
    /\ hsPc = "loop"
    /\ hsIdx <= Len(hsDepls)
    /\ IF ok
       THEN /\ hsStatus' = ComposefsPlace(hsStatus, hsDepls[hsIdx].id,
                                          hsBooted, hsStagedFile)
            /\ hsIdx' = hsIdx + 1
            /\ UNCHANGED hsPc
       ELSE /\ hsPc' = "err"
            /\ UNCHANGED <<hsStatus, hsIdx>>
    /\ UNCHANGED <<hsBackend, hsDepls, hsBooted, hsStagedFile>>
    /\ UNCHANGED notStatus

\* After the loop: no deployment at all is an error ("Could not determine
\* boot type"); the boot entries are read for rollback_queued.
ComposefsStatusFinish(ok) ==
    /\ hsPc = "loop"
    /\ hsIdx > Len(hsDepls)
    /\ hsPc' = IF ok /\ hsDepls # <<>> THEN "ok" ELSE "err"
    /\ UNCHANGED <<hsBackend, hsDepls, hsBooted, hsStagedFile, hsStatus, hsIdx>>
    /\ UNCHANGED notStatus

NextStatus ==
    \/ \E ok \in BOOLEAN : OstreeStatus(ok)
    \/ \E ok \in BOOLEAN : ComposefsStatusStart(ok)
    \/ \E ok \in BOOLEAN : ComposefsStatusEntry(ok)
    \/ \E ok \in BOOLEAN : ComposefsStatusFinish(ok)

IdleStatus ==
    /\ hsPc = "idle"
    /\ hsBackend = "ostree"
    /\ hsDepls = <<>>
    /\ hsBooted = 0
    /\ hsStagedFile = 0
    /\ hsIdx = 1
    /\ hsStatus = EmptyStatus

\* Any deployments on disk.  On ostree at most one deployment is staged and
\* it is not the booted one; on composefs the stateroot and the staged flag
\* do not exist, and the staged-deployment file names any id or is absent.
InitStatus ==
    /\ hsPc = "idle"
    /\ hsBackend \in {"ostree", "composefs"}
    /\ hsDepls \in DeploymentLists
    /\ \A i \in 1..Len(hsDepls) : hsDepls[i].id = i
    /\ Cardinality({i \in 1..Len(hsDepls) : hsDepls[i].staged}) <= 1
    /\ hsBooted \in 0..Len(hsDepls)
    /\ hsBooted # 0 => ~hsDepls[hsBooted].staged
    /\ hsStagedFile \in 0..MaxDepls
    /\ hsBackend = "ostree" => hsStagedFile = 0
    /\ hsBackend = "composefs" =>
            \A i \in 1..Len(hsDepls) :
                hsDepls[i].osname = "a" /\ ~hsDepls[i].staged
    /\ hsIdx = 1
    /\ hsStatus = EmptyStatus

(***************************************************************************)
(*        crates/lib/src/install.rs: require_empty_rootdir                 *)
(***************************************************************************)
\* The sequences without repetition over a set of names: the listings a
\* directory iteration can yield.
Listings(names) ==
    {s \in UNION {[1..n -> names] : n \in 0..Cardinality(names)} :
        \A i, j \in 1..Len(s) : i # j => s[i] # s[j]}

\* Names of top-level entries; "other" is any further name.
RootNames == {"lost+found", "boot", "other"}

\* Names of entries of boot/.
BootNames == {"lost+found", "EFI", "other"}

\* The check of boot/: `entries.next()` is looked at, and nothing after it.
BootFirstEntryOk(listing) ==
    listing = <<>> \/ listing[1] \in {"lost+found", "EFI"}

\* One iteration of the loop over the root directory; reading an entry (or
\* boot/) may fail.
RootEntry(ioOk) ==
    /\ rdPc = "loop"
    /\ rdIdx <= Len(rdRoot)
    /\ LET name == rdRoot[rdIdx]
           pass == /\ ioOk
                   /\ \/ name = "lost+found"
                      \/ name = "boot" /\ BootFirstEntryOk(rdBoot)
       IN  /\ rdPc' = IF pass THEN "loop" ELSE "err"
           /\ rdIdx' = IF pass THEN rdIdx + 1 ELSE rdIdx
    /\ UNCHANGED <<rdRoot, rdBoot>>
    /\ UNCHANGED notRootdir

\* The loop is over: Ok(()).
RootDone ==
    /\ rdPc = "loop"
    /\ rdIdx > Len(rdRoot)
    /\ rdPc' = "ok"
    /\ UNCHANGED <<rdRoot, rdBoot, rdIdx>>
    /\ UNCHANGED notRootdir

NextRootdir ==
    \/ \E ioOk \in BOOLEAN : RootEntry(ioOk)
    \/ RootDone

IdleRootdir ==
    /\ rdPc = "loop"
    /\ rdRoot = <<>>
    /\ rdBoot = <<>>
    /\ rdIdx = 1

\* Any target root, listed in any order; boot/ holds something only if it
\* exists.
InitRootdir ==
    /\ rdPc = "loop"
    /\ rdRoot \in Listings(RootNames)
    /\ rdBoot \in Listings(BootNames)
    /\ (\A i \in 1..Len(rdRoot) : rdRoot[i] # "boot") => rdBoot = <<>>
    /\ rdIdx = 1

(***************************************************************************)
(*        crates/lib/src/install.rs: install_to_filesystem_impl            *)
(***************************************************************************)
\* The unchanged inputs of one install.
InstInputs == <<instComposefs, instCleanup, instBound, instSkipFinalize,
                instHasBoot>>

\* The boot uuid is worked out and the bound images are resolved.
InstStart(uuidOk, boundOk) ==
    /\ instPc = "idle"
    /\ instPc' = IF uuidOk /\ boundOk THEN "branch" ELSE "err"
    /\ UNCHANGED <<InstInputs, alephWritten, cleanupMarker, finalized>>
    /\ UNCHANGED instLog
    /\ UNCHANGED <<instFsIdx, instFsStep, instFsLog, frozen>>
    /\ UNCHANGED notInstall

\* state.composefs_options.is_some(): initialize_composefs_repository pulls
\* the image into the composefs repository.
InstComposefsRepo(ok) ==
    /\ instPc = "branch"
    /\ instComposefs
    /\ instPc' = IF ok THEN "composefs_boot" ELSE "err"
    /\ instLog' = IF ok THEN Append(instLog, "image") ELSE instLog
    /\ UNCHANGED <<InstInputs, alephWritten, cleanupMarker, finalized>>
    /\ UNCHANGED <<instFsIdx, instFsStep, instFsLog, frozen>>
    /\ UNCHANGED notInstall

\* setup_composefs_boot(rootfs, state, id)?: the bootloader is installed,
\* then the boot entries and the deployment state are written.  With
\* failAt = 1 the bootloader helper fails, with 2 a later step does.
InstComposefsBoot(failAt) ==
    /\ instPc = "composefs_boot"
    /\ instPc' = IF failAt = 0 THEN "finalize_fs" ELSE "err"
    /\ instLog' = IF failAt = 1 THEN instLog
                  ELSE IF failAt = 2 THEN Append(instLog, "bootloader")
                  ELSE instLog \o <<"bootloader", "entries">>
    /\ UNCHANGED <<InstInputs, alephWritten, cleanupMarker, finalized>>
    /\ UNCHANGED <<instFsIdx, instFsStep, instFsLog, frozen>>
    /\ UNCHANGED notInstall

\* Otherwise: initialize_ostree_root.
InstOstreeRoot(ok) ==
    /\ instPc = "branch"
    /\ ~instComposefs
    /\ instPc' = IF ok THEN "container" ELSE "err"
    /\ UNCHANGED <<InstInputs, alephWritten, cleanupMarker, finalized>>
    /\ UNCHANGED instLog
    /\ UNCHANGED <<instFsIdx, instFsStep, instFsLog, frozen>>
    /\ UNCHANGED notInstall

\* install_with_sysroot: install_container pulls the image and deploys it,
\* which writes the deployment and its boot entry.
InstContainer(ok) ==
    /\ instPc = "container"
    /\ instPc' = IF ok THEN "aleph" ELSE "err"
    /\ instLog' = IF ok THEN instLog \o <<"image", "entries">> ELSE instLog
    /\ UNCHANGED <<InstInputs, alephWritten, cleanupMarker, finalized>>
    /\ UNCHANGED <<instFsIdx, instFsStep, instFsLog, frozen>>
    /\ UNCHANGED notInstall

\* InstallAleph::write_to(root): .bootc-aleph.json is there when the atomic
\* replace succeeded.
AlephWriteTo(ok) == ok

\* install_with_sysroot: aleph.write_to(&rootfs.physical_root)?
InstWriteAleph(ok) ==
    /\ instPc = "aleph"
    /\ alephWritten' = AlephWriteTo(ok)
    /\ instPc' = IF ok THEN "bootloader" ELSE "err"
    /\ instLog' = IF ok THEN Append(instLog, "aleph") ELSE instLog
    /\ UNCHANGED <<InstInputs, cleanupMarker, finalized>>
    /\ UNCHANGED <<instFsIdx, instFsStep, instFsLog, frozen>>
    /\ UNCHANGED notInstall

\* install_with_sysroot: the bootloader is installed.
InstBootloader(ok) ==
    /\ instPc = "bootloader"
    /\ instPc' = IF ok THEN "bound" ELSE "err"
    /\ instLog' = IF ok THEN Append(instLog, "bootloader") ELSE instLog
    /\ UNCHANGED <<InstInputs, alephWritten, cleanupMarker, finalized>>
    /\ UNCHANGED <<instFsIdx, instFsStep, instFsLog, frozen>>
    /\ UNCHANGED notInstall

\* install_with_sysroot: the bound images are pulled (none on Skip).
InstBoundImages(ok) ==
    /\ instPc = "bound"
    /\ instPc' = IF ok \/ instBound = "Skip" THEN "cleanup" ELSE "err"
    /\ UNCHANGED <<InstInputs, alephWritten, cleanupMarker, finalized>>
    /\ UNCHANGED instLog
    /\ UNCHANGED <<instFsIdx, instFsStep, instFsLog, frozen>>
    /\ UNCHANGED notInstall

\* sysroot.get_ostree()?, and the destructive-cleanup marker on
\* Cleanup::TriggerOnNextBoot.
InstCleanup(ostreeOk, writeOk) ==
    /\ instPc = "cleanup"
    /\ LET write == ostreeOk /\ instCleanup = "TriggerOnNextBoot" IN
        /\ cleanupMarker' = (write /\ writeOk)
        /\ instPc' = IF ostreeOk /\ (write => writeOk) THEN "finalize"
                     ELSE "err"
    /\ UNCHANGED <<InstInputs, alephWritten, finalized>>
    /\ UNCHANGED instLog
    /\ UNCHANGED <<instFsIdx, instFsStep, instFsLog, frozen>>
    /\ UNCHANGED notInstall

\* install_finalize(&rootfs.physical_root_path)
InstFinalize(ok) ==
    /\ instPc = "finalize"
    /\ instPc' = IF ok THEN "finalize_fs" ELSE "err"
    /\ UNCHANGED <<InstInputs, alephWritten, cleanupMarker, finalized>>
    /\ UNCHANGED instLog
    /\ UNCHANGED <<instFsIdx, instFsStep, instFsLog, frozen>>
    /\ UNCHANGED notInstall

\* The commands of finalize_filesystem, in its order: fstrim, mount -o
\* remount,ro, fsfreeze -f, fsfreeze -u.
FinalizeSteps == <<"fstrim", "remount_ro", "freeze", "thaw">>

\* The filesystems to finalize: none with skip_finalize, else "root" and
\* then "boot" when there is a boot filesystem.
FinalizeTargets ==
    IF instSkipFinalize THEN <<>>
    ELSE IF instHasBoot THEN <<"root", "boot">> ELSE <<"root">>

\* One command of finalize_filesystem on the current filesystem.  Each is
\* preceded by a fallible step (cwd(root)?, root.try_clone()?) and returns
\* its own failure with `?`; a failed fsfreeze changes nothing.
InstFinalizeFs(prepOk, runOk) ==
    /\ instPc = "finalize_fs"
    /\ IF instFsIdx > Len(FinalizeTargets)
       THEN /\ instPc' = "ok"
            /\ UNCHANGED <<instFsIdx, instFsStep, instFsLog, frozen, finalized>>
       ELSE LET fs == FinalizeTargets[instFsIdx]
                step == FinalizeSteps[instFsStep]
            IN  IF ~prepOk
                THEN /\ instPc' = "err"
                     /\ UNCHANGED <<instFsIdx, instFsStep, instFsLog, frozen,
                                    finalized>>
                ELSE /\ instFsLog' = Append(instFsLog, <<fs, step>>)
                     /\ IF ~runOk
                        THEN /\ instPc' = "err"
                             /\ UNCHANGED <<instFsIdx, instFsStep, frozen,
                                            finalized>>
                        ELSE /\ instPc' = instPc
                             /\ frozen' = IF step = "freeze"
                                          THEN frozen \cup {fs}
                                          ELSE IF step = "thaw"
                                          THEN frozen \ {fs}
                                          ELSE frozen
                             /\ IF instFsStep = Len(FinalizeSteps)
                                THEN /\ instFsIdx' = instFsIdx + 1
                                     /\ instFsStep' = 1
                                     /\ finalized' = finalized \cup {fs}
                                ELSE /\ instFsStep' = instFsStep + 1
                                     /\ UNCHANGED <<instFsIdx, finalized>>
    /\ UNCHANGED <<InstInputs, alephWritten, cleanupMarker, instLog>>
    /\ UNCHANGED notInstall

NextInstall ==
    \/ \E uuidOk \in BOOLEAN, boundOk \in BOOLEAN : InstStart(uuidOk, boundOk)
    \/ \E ok \in BOOLEAN : InstComposefsRepo(ok)
    \/ \E failAt \in 0..2 : InstComposefsBoot(failAt)
    \/ \E ok \in BOOLEAN : InstOstreeRoot(ok)
    \/ \E ok \in BOOLEAN : InstContainer(ok)
    \/ \E ok \in BOOLEAN : InstWriteAleph(ok)
    \/ \E ok \in BOOLEAN : InstBootloader(ok)
    \/ \E ok \in BOOLEAN : InstBoundImages(ok)
    \/ \E ostreeOk \in BOOLEAN, writeOk \in BOOLEAN : InstCleanup(ostreeOk, writeOk)
    \/ \E ok \in BOOLEAN : InstFinalize(ok)
    \/ \E prepOk \in BOOLEAN, runOk \in BOOLEAN : InstFinalizeFs(prepOk, runOk)

IdleInstall ==
    /\ instPc = "idle"
    /\ instComposefs = FALSE
    /\ instCleanup = "Skip"
    /\ instBound = "Skip"
    /\ instSkipFinalize = FALSE
    /\ instHasBoot = FALSE
    /\ alephWritten = FALSE
    /\ cleanupMarker = FALSE
    /\ finalized = {}
    /\ instLog = <<>>
    /\ instFsIdx = 1
    /\ instFsStep = 1
    /\ instFsLog = <<>>
    /\ frozen = {}

\* An install with the ostree backend or the composefs-native one, of any
\* options, onto a root that holds no aleph file.
InitInstall ==
    /\ instPc = "idle"
    /\ instComposefs \in BOOLEAN
    /\ instCleanup \in {"Skip", "TriggerOnNextBoot"}
    /\ instBound \in {"Skip", "Resolved", "Unresolved"}
    /\ instSkipFinalize \in BOOLEAN
    /\ instHasBoot \in BOOLEAN
    /\ alephWritten = FALSE
    /\ cleanupMarker = FALSE
    /\ finalized = {}
    /\ instLog = <<>>
    /\ instFsIdx = 1
    /\ instFsStep = 1
    /\ instFsLog = <<>>
    /\ frozen = {}

(***************************************************************************)
(*                crates/lib/src/install.rs: install_to_disk               *)
(***************************************************************************)
\* What the metadata of the target says it is.
FileTypes == {"file", "block", "other"}

\* The checks on the target before anything is done: with --via-loopback
\* --generic-image is switched on and the target must be a regular file,
\* without it the target must be a block device.  Then prepare_install.
DiskCheck(prepareOk) ==
    /\ dkPc = "start"
    /\ dkGeneric' = (dkGeneric \/ dkViaLoopback)
    /\ dkPc' = IF dkViaLoopback /\ dkFileType # "file" THEN "err"
               ELSE IF ~dkViaLoopback /\ dkFileType # "block" THEN "err"
               ELSE IF ~prepareOk THEN "err"
               ELSE "loopback"
    /\ UNCHANGED <<dkViaLoopback, dkComposefs, dkFileType, dkLuks, dkLoopback, dkMounted,
                   dkLuksOpen, dkReleased>>
    /\ UNCHANGED notDisk

\* LoopbackDevice::new when --via-loopback is given; its error is returned.
DiskLoopback(newOk) ==
    /\ dkPc = "loopback"
    /\ IF ~dkViaLoopback
       THEN /\ dkPc' = "create_rootfs"
            /\ UNCHANGED dkLoopback
       ELSE IF newOk
       THEN /\ dkPc' = "create_rootfs"
            /\ dkLoopback' = TRUE
       ELSE /\ dkPc' = "err"
            /\ UNCHANGED dkLoopback
    /\ UNCHANGED <<dkViaLoopback, dkComposefs, dkFileType, dkGeneric, dkLuks, dkMounted,
                   dkLuksOpen, dkReleased>>
    /\ UNCHANGED notDisk

\* The LoopbackDevice goes out of scope on an error return: Drop runs
\* impl_close, which runs `losetup -d` and drops its result.
DropLoopback(held) == held

\* install_create_rootfs in a blocking task: on success the root filesystem
\* is mounted, on a LUKS device if one was asked for.  On failure the
\* function returns and the loopback device is dropped.
DiskCreateRootfs(createOk) ==
    /\ dkPc = "create_rootfs"
    /\ IF createOk
       THEN /\ dkMounted' = TRUE
            /\ dkLuksOpen' = dkLuks
            /\ dkPc' = "install"
            /\ UNCHANGED <<dkLoopback, dkReleased>>
       ELSE /\ dkPc' = "err"
            /\ dkReleased' = DropLoopback(dkLoopback)
            /\ dkLoopback' = FALSE
            /\ UNCHANGED <<dkMounted, dkLuksOpen>>
    /\ UNCHANGED <<dkViaLoopback, dkComposefs, dkFileType, dkGeneric, dkLuks>>
    /\ UNCHANGED notDisk

\* `install_to_filesystem_impl(&state, &mut rootfs, Cleanup::Skip).await?`:
\* on an error the function returns at once, dropping loopback and rootfs.
DiskInstall(implOk) ==
    /\ dkPc = "install"
    /\ IF implOk
       THEN /\ dkPc' = "umount"
            /\ UNCHANGED <<dkLoopback, dkReleased>>
       ELSE /\ dkPc' = "err"
            /\ dkReleased' = DropLoopback(dkLoopback)
            /\ dkLoopback' = FALSE
    /\ UNCHANGED <<dkViaLoopback, dkComposefs, dkFileType, dkGeneric, dkLuks, dkMounted,
                   dkLuksOpen>>
    /\ UNCHANGED notDisk

\* `umount -R root_path`, with `?`.
DiskUmount(umountOk) ==
    /\ dkPc = "umount"
    /\ IF umountOk
       THEN /\ dkMounted' = FALSE
            /\ dkPc' = "luks"
            /\ UNCHANGED <<dkLoopback, dkReleased>>
       ELSE /\ dkPc' = "err"
            /\ dkReleased' = DropLoopback(dkLoopback)
            /\ dkLoopback' = FALSE
            /\ UNCHANGED dkMounted
    /\ UNCHANGED <<dkViaLoopback, dkComposefs, dkFileType, dkGeneric, dkLuks, dkLuksOpen>>
    /\ UNCHANGED notDisk

\* `cryptsetup close` if there is a LUKS device, with `?`.
DiskLuksClose(closeOk) ==
    /\ dkPc = "luks"
    /\ IF ~dkLuksOpen
       THEN /\ dkPc' = "close"
            /\ UNCHANGED <<dkLuksOpen, dkLoopback, dkReleased>>
       ELSE IF closeOk
       THEN /\ dkLuksOpen' = FALSE
            /\ dkPc' = "close"
            /\ UNCHANGED <<dkLoopback, dkReleased>>
       ELSE /\ dkPc' = "err"
            /\ dkReleased' = DropLoopback(dkLoopback)
            /\ dkLoopback' = FALSE
            /\ UNCHANGED dkLuksOpen
    /\ UNCHANGED <<dkViaLoopback, dkComposefs, dkFileType, dkGeneric, dkLuks, dkMounted>>
    /\ UNCHANGED notDisk

\* `loopback_dev.close()?` if there is a loopback device: `losetup -d` runs.
DiskLoopbackClose(closeOk) ==
    /\ dkPc = "close"
    /\ dkReleased' = dkLoopback
    /\ dkLoopback' = FALSE
    /\ dkPc' = IF dkLoopback /\ ~closeOk THEN "err" ELSE "consume"
    /\ UNCHANGED <<dkViaLoopback, dkComposefs, dkFileType, dkGeneric, dkLuks, dkMounted,
                   dkLuksOpen>>
    /\ UNCHANGED notDisk

\* `state.consume()?` and installation_complete().
DiskConsume(consumeOk) ==
    /\ dkPc = "consume"
    /\ dkPc' = IF consumeOk THEN "ok" ELSE "err"
    /\ UNCHANGED <<dkViaLoopback, dkComposefs, dkFileType, dkGeneric, dkLuks, dkLoopback,
                   dkMounted, dkLuksOpen, dkReleased>>
    /\ UNCHANGED notDisk

NextDisk ==
    \/ \E prepareOk \in BOOLEAN : DiskCheck(prepareOk)
    \/ \E newOk \in BOOLEAN : DiskLoopback(newOk)
    \/ \E createOk \in BOOLEAN : DiskCreateRootfs(createOk)
    \/ \E implOk \in BOOLEAN : DiskInstall(implOk)
    \/ \E umountOk \in BOOLEAN : DiskUmount(umountOk)
    \/ \E closeOk \in BOOLEAN : DiskLuksClose(closeOk)
    \/ \E closeOk \in BOOLEAN : DiskLoopbackClose(closeOk)
    \/ \E consumeOk \in BOOLEAN : DiskConsume(consumeOk)

IdleDisk ==
    /\ dkPc = "start"
    /\ dkViaLoopback = FALSE
    /\ dkComposefs = FALSE
    /\ dkFileType = "other"
    /\ dkGeneric = FALSE
    /\ dkLuks = FALSE
    /\ dkLoopback = FALSE
    /\ dkMounted = FALSE
    /\ dkLuksOpen = FALSE
    /\ dkReleased = FALSE

InitDisk ==
    /\ dkPc = "start"
    /\ dkViaLoopback \in BOOLEAN
    /\ dkComposefs \in BOOLEAN
    /\ dkFileType \in FileTypes
    /\ dkGeneric \in BOOLEAN
    /\ dkLuks \in BOOLEAN
    /\ dkLoopback = FALSE
    /\ dkMounted = FALSE
    /\ dkLuksOpen = FALSE
    /\ dkReleased = FALSE

(***************************************************************************)
(*                crates/lib/src/install.rs: prepare_install               *)
(***************************************************************************)
\* The source is worked out: without --source-imgref the command must run
\* inside a container.
PrepSource(ok) ==
    /\ ppPc = "source"
    /\ ppPc' = IF (ppExternal \/ ppHostContainer) /\ ok THEN "mounts"
               ELSE "err"
    /\ UNCHANGED <<ppExternal, ppHostContainer, ppSkipUnshare, ppFetchCheck,
                   ppLog>>
    /\ UNCHANGED notPrep

\* The host's /dev, /var/lib/containers and /var/tmp are mirrored, /tmp is
\* set up and the temporary directory is allocated.
PrepMounts(ok) ==
    /\ ppPc = "mounts"
    /\ ppPc' = IF ok THEN "fetch_check" ELSE "err"
    /\ ppLog' = IF ok THEN Append(ppLog, "mounts") ELSE ppLog
    /\ UNCHANGED <<ppExternal, ppHostContainer, ppSkipUnshare, ppFetchCheck>>
    /\ UNCHANGED notPrep

\* `if target_opts.run_fetch_check { verify_target_fetch(..).await? }`
PrepFetchCheck(ok) ==
    /\ ppPc = "fetch_check"
    /\ IF ~ppFetchCheck
       THEN /\ ppPc' = "unshare"
            /\ UNCHANGED ppLog
       ELSE /\ ppPc' = IF ok THEN "unshare" ELSE "err"
            /\ ppLog' = Append(ppLog, "fetch_check")
    /\ UNCHANGED <<ppExternal, ppHostContainer, ppSkipUnshare, ppFetchCheck>>
    /\ UNCHANGED notPrep

\* Unless the source is external or BOOTC_SKIP_UNSHARE is set:
\* ensure_self_unshared_mount_namespace()?
PrepUnshare(ok) ==
    /\ ppPc = "unshare"
    /\ IF ppExternal \/ ppSkipUnshare
       THEN /\ ppPc' = "efivarfs"
            /\ UNCHANGED ppLog
       ELSE /\ ppPc' = IF ok THEN "efivarfs" ELSE "err"
            /\ ppLog' = IF ok THEN Append(ppLog, "namespace") ELSE ppLog
    /\ UNCHANGED <<ppExternal, ppHostContainer, ppSkipUnshare, ppFetchCheck>>
    /\ UNCHANGED notPrep

\* setup_sys_mount("efivarfs", EFIVARFS)?
PrepEfivarfs(ok) ==
    /\ ppPc = "efivarfs"
    /\ ppPc' = IF ok THEN "selinux" ELSE "err"
    /\ UNCHANGED <<ppExternal, ppHostContainer, ppSkipUnshare, ppFetchCheck,
                   ppLog>>
    /\ UNCHANGED notPrep

\* reexecute_self_for_selinux_if_needed(&source, disable_selinux)?
PrepSelinux(ok) ==
    /\ ppPc = "selinux"
    /\ ppPc' = IF ok THEN "ok" ELSE "err"
    /\ ppLog' = Append(ppLog, "selinux")
    /\ UNCHANGED <<ppExternal, ppHostContainer, ppSkipUnshare, ppFetchCheck>>
    /\ UNCHANGED notPrep

NextPrep ==
    \/ \E ok \in BOOLEAN : PrepSource(ok)
    \/ \E ok \in BOOLEAN : PrepMounts(ok)
    \/ \E ok \in BOOLEAN : PrepFetchCheck(ok)
    \/ \E ok \in BOOLEAN : PrepUnshare(ok)
    \/ \E ok \in BOOLEAN : PrepEfivarfs(ok)
    \/ \E ok \in BOOLEAN : PrepSelinux(ok)

IdlePrep ==
    /\ ppPc = "source"
    /\ ppExternal = FALSE
    /\ ppHostContainer = FALSE
    /\ ppSkipUnshare = FALSE
    /\ ppFetchCheck = FALSE
    /\ ppLog = <<>>

InitPrep ==
    /\ ppPc = "source"
    /\ ppExternal \in BOOLEAN
    /\ ppHostContainer \in BOOLEAN
    /\ ppSkipUnshare \in BOOLEAN
    /\ ppFetchCheck \in BOOLEAN
    /\ ppLog = <<>>

(***************************************************************************)
(*                         Specifications                                  *)
(***************************************************************************)
InitSpecLoop ==
    IdleLoop /\ IdleVerity /\ IdleFetch /\ IdleDecomp /\ IdleUki /\
    IdleState /\ IdleBls /\ IdleInstall /\ IdleStatus /\ IdleRootdir /\
    IdleOrd /\ IdleParse /\ IdleKargs /\ IdleSize /\ IdleDisk /\ IdlePrep

SpecLoop == InitSpecLoop /\ [][NextLoop]_vars

\* The operating system keeps scheduling a helper that can take a step.
FairSpecLoop ==
    SpecLoop /\ \A d \in Devs : WF_vars(HelperProc(d))

InitSpecVerity ==
    IdleLoop /\ InitVerity /\ IdleFetch /\ IdleDecomp /\ IdleUki /\
    IdleState /\ IdleBls /\ IdleInstall /\ IdleStatus /\ IdleRootdir /\
    IdleOrd /\ IdleParse /\ IdleKargs /\ IdleSize /\ IdleDisk /\ IdlePrep

SpecVerity == InitSpecVerity /\ [][NextVerity]_vars

InitSpecFetch ==
    IdleLoop /\ IdleVerity /\ IdleFetch /\ IdleDecomp /\ IdleUki /\
    IdleState /\ IdleBls /\ IdleInstall /\ IdleStatus /\ IdleRootdir /\
    IdleOrd /\ IdleParse /\ IdleKargs /\ IdleSize /\ IdleDisk /\ IdlePrep

SpecFetch == InitSpecFetch /\ [][NextFetch]_vars

InitSpecDecomp ==
    IdleLoop /\ IdleVerity /\ IdleFetch /\ InitDecomp /\ IdleUki /\
    IdleState /\ IdleBls /\ IdleInstall /\ IdleStatus /\ IdleRootdir /\
    IdleOrd /\ IdleParse /\ IdleKargs /\ IdleSize /\ IdleDisk /\ IdlePrep

SpecDecomp == InitSpecDecomp /\ [][NextDecomp]_vars

InitSpecUki ==
    IdleLoop /\ IdleVerity /\ IdleFetch /\ IdleDecomp /\ IdleUki /\
    IdleState /\ IdleBls /\ IdleInstall /\ IdleStatus /\ IdleRootdir /\
    IdleOrd /\ IdleParse /\ IdleKargs /\ IdleSize /\ IdleDisk /\ IdlePrep

SpecUki == InitSpecUki /\ [][NextUki]_vars

InitSpecState ==
    IdleLoop /\ IdleVerity /\ IdleFetch /\ IdleDecomp /\ IdleUki /\
    InitState /\ IdleBls /\ IdleInstall /\ IdleStatus /\ IdleRootdir /\
    IdleOrd /\ IdleParse /\ IdleKargs /\ IdleSize /\ IdleDisk /\ IdlePrep

SpecState == InitSpecState /\ [][NextState]_vars

InitSpecBls ==
    IdleLoop /\ IdleVerity /\ IdleFetch /\ IdleDecomp /\ IdleUki /\
    IdleState /\ InitBls /\ IdleInstall /\ IdleStatus /\ IdleRootdir /\
    IdleOrd /\ IdleParse /\ IdleKargs /\ IdleSize /\ IdleDisk /\ IdlePrep

SpecBls == InitSpecBls /\ [][NextBls]_vars

InitSpecInstall ==
    IdleLoop /\ IdleVerity /\ IdleFetch /\ IdleDecomp /\ IdleUki /\
    IdleState /\ IdleBls /\ InitInstall /\ IdleStatus /\ IdleRootdir /\
    IdleOrd /\ IdleParse /\ IdleKargs /\ IdleSize /\ IdleDisk /\ IdlePrep

SpecInstall == InitSpecInstall /\ [][NextInstall]_vars

InitSpecStatus ==
    IdleLoop /\ IdleVerity /\ IdleFetch /\ IdleDecomp /\ IdleUki /\
    IdleState /\ IdleBls /\ IdleInstall /\ InitStatus /\ IdleRootdir /\
    IdleOrd /\ IdleParse /\ IdleKargs /\ IdleSize /\ IdleDisk /\ IdlePrep

SpecStatus == InitSpecStatus /\ [][NextStatus]_vars

InitSpecRootdir ==
    IdleLoop /\ IdleVerity /\ IdleFetch /\ IdleDecomp /\ IdleUki /\
    IdleState /\ IdleBls /\ IdleInstall /\ IdleStatus /\ InitRootdir /\
    IdleOrd /\ IdleParse /\ IdleKargs /\ IdleSize /\ IdleDisk /\ IdlePrep

SpecRootdir == InitSpecRootdir /\ [][NextRootdir]_vars

InitSpecOrd ==
    IdleLoop /\ IdleVerity /\ IdleFetch /\ IdleDecomp /\ IdleUki /\
    IdleState /\ IdleBls /\ IdleInstall /\ IdleStatus /\ IdleRootdir /\
    InitOrd /\ IdleParse /\ IdleKargs /\ IdleSize /\ IdleDisk /\ IdlePrep

SpecOrd == InitSpecOrd /\ [][NextOrd]_vars

InitSpecParse ==
    IdleLoop /\ IdleVerity /\ IdleFetch /\ IdleDecomp /\ IdleUki /\
    IdleState /\ IdleBls /\ IdleInstall /\ IdleStatus /\ IdleRootdir /\
    IdleOrd /\ InitParse /\ IdleKargs /\ IdleSize /\ IdleDisk /\ IdlePrep

SpecParse == InitSpecParse /\ [][NextParse]_vars

InitSpecKargs ==
    IdleLoop /\ IdleVerity /\ IdleFetch /\ IdleDecomp /\ IdleUki /\
    IdleState /\ IdleBls /\ IdleInstall /\ IdleStatus /\ IdleRootdir /\
    IdleOrd /\ IdleParse /\ InitKargs /\ IdleSize /\ IdleDisk /\ IdlePrep

SpecKargs == InitSpecKargs /\ [][NextKargs]_vars

InitSpecSize ==
    IdleLoop /\ IdleVerity /\ IdleFetch /\ IdleDecomp /\ IdleUki /\
    IdleState /\ IdleBls /\ IdleInstall /\ IdleStatus /\ IdleRootdir /\
    IdleOrd /\ IdleParse /\ IdleKargs /\ InitSize /\ IdleDisk /\ IdlePrep

SpecSize == InitSpecSize /\ [][NextSize]_vars

InitSpecDisk ==
    IdleLoop /\ IdleVerity /\ IdleFetch /\ IdleDecomp /\ IdleUki /\
    IdleState /\ IdleBls /\ IdleInstall /\ IdleStatus /\ IdleRootdir /\
    IdleOrd /\ IdleParse /\ IdleKargs /\ IdleSize /\ InitDisk /\ IdlePrep

SpecDisk == InitSpecDisk /\ [][NextDisk]_vars

InitSpecPrep ==
    IdleLoop /\ IdleVerity /\ IdleFetch /\ IdleDecomp /\ IdleUki /\
    IdleState /\ IdleBls /\ IdleInstall /\ IdleStatus /\ IdleRootdir /\
    IdleOrd /\ IdleParse /\ IdleKargs /\ IdleSize /\ IdleDisk /\ InitPrep

SpecPrep == InitSpecPrep /\ [][NextPrep]_vars

(***************************************************************************)
(*                              Claims                                     *)
(***************************************************************************)
\* C1: over close() followed by the implicit drop, the owning process runs
\* `losetup -d` for a device exactly once; every impl_close invocation after
\* the first is a no-op that returns success.
C1_CloseIdempotent ==
    \A d \in Devs :
        /\ ownerDetach[d] = (IF closeResults[d] = <<>> THEN 0 ELSE 1)
        /\ \A i \in 2..Len(closeResults[d]) : closeResults[d][i] = "ok"

C1_Witness == \E d \in Devs : Len(closeResults[d]) = 2 /\ loPc[d] = "dropped"

\* C2 (as claimed): once close() or drop has run, the device is detached and
\* the cleanup helper is no longer running.
C2_Original ==
    \A d \in Devs :
        closeResults[d] # <<>> =>
            ~attached[d] /\ helper[d] \notin HelperRunning

\* C2 (amended): once close() or drop has run, the owning process has run
\* `losetup -d` once and the cleanup helper is no longer running; the device
\* is detached whenever that `losetup -d` succeeded.
C2_Amended ==
    \A d \in Devs :
        closeResults[d] # <<>> =>
            /\ helper[d] \notin HelperRunning
            /\ ownerDetach[d] = 1
            /\ (closeResults[d][1] = "ok" => ~attached[d])

C2_Witness ==
    \E d \in Devs :
        closeResults[d] = <<"ok">> /\ helper[d] = "killed" /\ ~attached[d]

\* C3: if the creating process dies after new returned with a helper spawned
\* and before close/drop ran, the helper eventually runs `losetup -d` on the
\* device.
C3_HelperEventuallyCleans ==
    \A d \in Devs :
        (~parentAlive /\ loPc[d] = "live" /\ helper[d] # "none")
            ~> (helperDetach[d] > 0)

\* C4 (as claimed): whenever ensure_verity returns success, from any prior
\* state of the repository, every regular file object has fs-verity and so
\* has the config file.
C4_Original == evPc = "ok" => AllVerified /\ cfgVerity

\* C4 (amended): whenever ensure_verity returns success, from any prior state
\* except one in which the config-file flag was set while an object lacked
\* fs-verity, every regular file object has fs-verity and so has the config
\* file.
C4_Amended == (evPc = "ok" /\ entryTruthful) => AllVerified /\ cfgVerity

C4_Witness ==
    /\ evPc = "ok"
    /\ ~prevOk
    /\ ioctls >= 3
    /\ AllVerified
    /\ cfgVerity

\* C5: at most MAX_CONCURRENT object-directory tasks are spawned and not yet
\* joined at any moment of ensure_verity.
C5_BoundedTasks == Cardinality(joinset) <= MAX_CONCURRENT

C5_Witness ==
    /\ evPc = "walk"
    /\ Cardinality(joinset) = MAX_CONCURRENT
    /\ evIdx <= MaxObjDirs
    /\ objects[evIdx].isDir

\* C6: whenever both the worker and the driver fail, the error join_fetch
\* returns is the worker's error, never the driver's; and when the driver's
\* root-cause message ends with "broken pipe" the result is the worker's
\* error alone, with nothing of the driver's in it.
C6_WorkerErrorSurfaced ==
    (fetched # NotYet /\ ~worker.ok /\ ~driver.ok) =>
        /\ ~fetched.ok
        /\ fetched.origin = "worker"
        /\ EndsWith(fetched.chain, worker.chain)
        /\ (EndsWith(root_cause(driver), BrokenPipeText) => fetched = worker)

C6_Witness ==
    /\ fetched # NotYet
    /\ ~worker.ok
    /\ ~driver.ok
    /\ Len(driver.chain) = 2
    /\ EndsWith(root_cause(driver), BrokenPipeText)
    /\ root_cause(driver) # BrokenPipeText
    /\ fetched = worker

\* C7 (as claimed): dropping a Decompressor on which finish() was never
\* called panics.
C7_Original == dcPc = "dropped" => panicked

\* C7 (amended): dropping a Decompressor on which finish() was never called
\* runs the drain of finish(), and panics if and only if that drain fails.
C7_Amended ==
    dcPc = "dropped" =>
        /\ finished
        /\ finishResult # "none"
        /\ (panicked <=> finishResult = "err")

C7_Witness ==
    /\ dcPc = "dropped"
    /\ panicked
    /\ media = "plain"
    /\ errAt = 1

\* C8: after finish() returns Ok, the source stream given to
\* Decompressor::new has been read to its end, for every media type and
\* however much the consumer had read.
C8_FinishDrainsSource ==
    (dcPc = "finished" /\ finishResult = "ok") => decoder.pos = Len(src)

\* C9: on every path through setup_composefs_uki_boot after the ESP has been
\* mounted, the ESP is unmounted, and a mount point the function created is
\* removed, before the function returns.
C9_EspNeverLeftMounted ==
    (UkiReturned /\ everMounted) =>
        /\ ~espMounted
        /\ (~mpExisted => ~mpExists)

\* C10: whenever a composefs install has returned, with success or with an
\* error, every state/deploy/<id>/ that exists holds an <id>.origin whose
\* boot type matches the boot entry written for the id (BLS: an entry under
\* loader/entries; UKI: a file under EFI/Linux).
C10_DeployDirHasOrigin ==
    sbPc \in {"idle", "ok", "err"} =>
        \A id \in deployDirs :
            /\ originFile[id] \in {"bls", "uki"}
            /\ (originFile[id] = "bls" => id \in blsEntries)
            /\ (originFile[id] = "uki" => id \in espUki)

\* C11: the Type2 arm of setup_composefs_uki_boot writes <id>.efi only when
\* the id of the UKI's composefs= karg equals the deployment id; a mismatch
\* ends in an error with nothing written; the warning about the insecure
\* option is issued only for a disagreement between the option and the `?`
\* of the karg, and does not by itself end the function.
C11_UkiWrittenOnlyOnMatch ==
    [][(ukiPc = "mounted" /\ ukiEntry = "Type2") =>
        /\ (espUki' # espUki => cmdId = ukiId /\ espUki' = espUki \cup {ukiId})
        /\ (cmdId # ukiId => ukiPc' = "err" /\ espUki' = espUki)
        /\ (warned' => InsecureWarning(optInsecure, cmdInsecure))
        /\ (ukiPc' = "written" =>
                (warned' <=> InsecureWarning(optInsecure, cmdInsecure)))]_vars

\* A UKI was written although the insecure option and the karg's `?` differ.
C11_Witness ==
    /\ ukiPc \in {"written", "ok"}
    /\ warned
    /\ ukiId \in espUki
    /\ cmdId = ukiId

\* C12: after setup_composefs_bls_boot has returned Ok for deployment id on
\* root R, either R/boot/<id>/vmlinuz and initrd exist, or the entry's linux
\* and initrd name /boot/<other>/ where <other> is a deployment recorded
\* under R's state/deploy whose origin has the same boot digest.
C12_BootFilesOrSharedOnTarget ==
    blsPc = "ok" =>
        \/ blsId \in bootFiles
        \/ /\ blsWritten.linuxAt = blsWritten.initrdAt
           /\ blsWritten.linuxAt \in Ids
           /\ targetDeploy[blsWritten.linuxAt] = blsDigest

\* C13: after an upgrade, entries.staged holds the new deployment's entry
\* and the booted deployment's entry rewritten with sort_key "0", under
\* distinct file names, and BLSConfig's Ord places the new entry first.
C13_StagedNewEntryFirst ==
    (blsPc = "ok" /\ blsSetup = "Upgrade") =>
        LET booted == [bootedBls EXCEPT !.sort_key = Some(0)] IN
        /\ stagedDir = {[file |-> EntryFileName(blsWritten), cfg |-> blsWritten],
                        [file |-> EntryFileName(booted), cfg |-> booted]}
        /\ EntryFileName(blsWritten) # EntryFileName(booted)
        /\ blsWritten.title = blsId
        /\ cmp(blsWritten, booted) = "Less"

\* C14: every BLS entry setup_composefs_bls_boot writes, on install and on
\* upgrade, has `composefs=?<id>` exactly when the composefs repository is in
\* insecure mode, and `composefs=<id>` otherwise.
C14_InsecureKargIffRepoInsecure ==
    blsWritten # NoEntry =>
        /\ blsWritten.cfsId = blsId
        /\ (blsWritten.insecure <=> repoInsecure)

\* C15: every install that reports success, with the ostree backend or with
\* the composefs-native one, has written /.bootc-aleph.json into the target
\* root.
C15_SuccessHasAleph == instPc = "ok" => alephWritten

\* C16: the computed host status places each deployment on disk in exactly
\* one of booted, staged, rollback and other_deployments; none is left out.
C16_EveryDeploymentPlacedOnce ==
    hsPc = "ok" =>
        \A i \in 1..Len(hsDepls) :
            LET id == hsDepls[i].id IN
            Cardinality({c \in {"booted", "staged", "rollback"} :
                            hsStatus[c] = Some(id)})
              + Cardinality({k \in 1..Len(hsStatus.other) :
                                hsStatus.other[k] = id}) = 1

\* C17: require_empty_rootdir returns Ok only if every top-level entry is
\* lost+found or boot and every entry of boot/ is EFI or lost+found, in
\* whatever order the directories are iterated.
C17_EmptyRootdirOnly ==
    rdPc = "ok" =>
        /\ \A i \in 1..Len(rdRoot) : rdRoot[i] \in {"lost+found", "boot"}
        /\ \A i \in 1..Len(rdBoot) : rdBoot[i] \in {"EFI", "lost+found"}

\* C18: a boot-entry variant that a writer does not implement (any but
\* UsrLibModulesVmLinuz for the BLS writer, any but Type2 for the UKI writer)
\* makes the writer return an error to its caller; the process is not
\* aborted.
C18_UnimplementedIsAnError ==
    /\ (BlsReturned /\ blsVariant # "UsrLibModulesVmLinuz") => blsPc = "err"
    /\ (UkiReturned /\ ukiEntry # "Type2") => ukiPc = "err"

\* C19: BLSConfig's Ord is a total order over all values, absent sort keys
\* and machine ids included: cmp(a, b) is the reverse of cmp(b, a), it is
\* Equal only for equal values, it is transitive, and it goes by the sort
\* key ascending, then the machine id ascending, then the version descending.
C19_OrdIsTotalOrder ==
    ordPc = "compared" =>
        /\ ordRes.ab = Reverse(ordRes.ba)
        /\ (ordRes.ab = "Equal" => ordA = ordB)
        /\ (ordRes.ab # "Greater" /\ ordRes.bc # "Greater"
                => ordRes.ac # "Greater")
        /\ (ordA.sort_key # None /\ ordB.sort_key # None
            /\ ordA.sort_key # ordB.sort_key
                => ordRes.ab = CmpVal(ordA.sort_key[1], ordB.sort_key[1]))
        /\ (ordA.sort_key = ordB.sort_key /\ ordA.machine_id = ordB.machine_id
                => ordRes.ab = Reverse(CmpVal(ordA.version, ordB.version)))

\* C20: for every BLSConfig value cfg with linux and version present
\* (non-empty), parse_bls_config(cfg.to_string()) succeeds and equals cfg.
C20_ParseFmtRoundTrip ==
    (rtPc = "parsed" /\ rtCfg.linux # <<>> /\ rtCfg.version # <<>>) =>
        rtParsed.ok /\ rtParsed.cfg = rtCfg

\* C21 (as stated): two parameters whose whole texts, key and value, are
\* equal after mapping every `-` to `_` compare equal.
C21_Original ==
    (kpPc = "compared" /\ Dedashed(kpA) = Dedashed(kpB)) => kpEq

\* C21 (amended): two parameters compare equal exactly when their keys are
\* equal after mapping every `-` to `_` and their values are both absent or
\* are the same bytes.
C21_Amended ==
    kpPc = "compared" =>
        LET p1 == ParameterFrom(kpA)
            p2 == ParameterFrom(kpB)
        IN  kpEq <=> /\ Len(p1.key) = Len(p2.key)
                     /\ \A i \in 1..Len(p1.key) :
                            \/ p1.key[i] = p2.key[i]
                            \/ {p1.key[i], p2.key[i]} = {"-", "_"}
                     /\ p1.value = p2.value

\* Keys that differ in `-` and `_` only, with the same value, compared equal.
C21_Witness ==
    /\ kpPc = "compared"
    /\ kpA = <<"-", "=", "a">>
    /\ kpB = <<"_", "=", "a">>
    /\ kpEq

\* C22: parse_size_mib accepts exactly the strings made of a decimal integer
\* followed by at most one of the suffixes MiB, M, GiB, G, TiB, T, and
\* returns the integer times the suffix's factor; every other string is an
\* error.
C22_SizeGrammar ==
    LET forms == {k \in 0..Len(suffixes) :
                    LET suf == IF k = 0 THEN <<>> ELSE suffixes[k].suffix
                        n == Len(psIn) - Len(suf)
                    IN  /\ n >= 1
                        /\ SubSeq(psIn, n + 1, Len(psIn)) = suf
                        /\ IsDecimal(SubSeq(psIn, 1, n))}
    IN  /\ psPc = "ok" =>
            \E k \in forms :
                psVal = DecimalValue(SubSeq(psIn, 1, Len(psIn) -
                            (IF k = 0 THEN 0 ELSE Len(suffixes[k].suffix))))
                        * (IF k = 0 THEN 1 ELSE suffixes[k].imul)
        /\ psPc = "err" => forms = {}

C25_FlagAfterAllTasks ==
    [][ /\ (~cfgVerity /\ cfgVerity') =>
            /\ joinset = {}
            /\ \A e \in Entries : taskState[e] \in {"none", "ok"}
            /\ \A e \in Entries : objects[e].isDir => taskState[e] = "ok"
            /\ AllVerified'
        /\ (\E e \in Entries : taskState'[e] = "err") =>
            /\ ~cfgVerity'
            /\ evPc' # "ok" ]_vars

C25_Witness ==
    /\ evPc = "ok"
    /\ cfgVerity
    /\ ioctls >= 3
    /\ Cardinality({e \in Entries : taskState[e] = "ok"}) >= 2

\* C24: in install_to_disk with --via-loopback, on every path, `losetup -d`
\* is run on the loop device only when the target filesystems have been
\* unmounted and the LUKS device, if any, has been closed.
C24_LoopReleasedLast ==
    (dkViaLoopback /\ dkReleased) => (~dkMounted /\ ~dkLuksOpen)

\* C26: in every install, with either backend, the image is pulled before
\* the bootloader helper is invoked, the bootloader helper is invoked before
\* the boot entries and the deployment state are written, and the aleph
\* record is written only after all of these.
C26_InstallStepOrder ==
    LET At(step) == {i \in 1..Len(instLog) : instLog[i] = step}
        Follows(later, earlier) ==
            \A i \in At(later) : \E j \in At(earlier) : j < i
    IN  /\ Follows("bootloader", "image")
        /\ Follows("entries", "bootloader")
        /\ Follows("aleph", "image")
        /\ Follows("aleph", "bootloader")
        /\ Follows("aleph", "entries")

\* C27: in prepare_install the SELinux re-execution decision is taken before
\* the private mount namespace is entered, and the namespace is entered
\* before the optional fetch check of the target image.
C27_SelinuxNamespaceFetch ==
    LET At(step) == {i \in 1..Len(ppLog) : ppLog[i] = step}
        Follows(later, earlier) ==
            \A i \in At(later) : \E j \in At(earlier) : j < i
    IN  /\ Follows("namespace", "selinux")
        /\ (~ppExternal /\ ~ppSkipUnshare) => Follows("fetch_check", "namespace")
        /\ Follows("fetch_check", "selinux")

\* C28: without skip_finalize each target filesystem, root and then boot if
\* there is one, gets fstrim, remount read-only, fsfreeze -f and fsfreeze -u
\* in exactly that order, and no filesystem is left frozen when the finalize
\* step has returned, with success or with an error.
C28_FinalizeOrderAndThaw ==
    LET Expected(n) == [k \in 1..n |->
            <<FinalizeTargets[((k - 1) \div Len(FinalizeSteps)) + 1],
              FinalizeSteps[((k - 1) % Len(FinalizeSteps)) + 1]>>]
        total == Len(FinalizeTargets) * Len(FinalizeSteps)
    IN  /\ Len(instFsLog) <= total
        /\ instFsLog = Expected(Len(instFsLog))
        /\ instPc = "ok" => Len(instFsLog) = total
        /\ instPc \in {"ok", "err"} => frozen = {}

C30_InstalledEntryParses ==
    LET written ==
            /\ rtCfg.title # None
            /\ rtCfg.title # Some(<<>>)
            /\ \A i \in 1..Len(rtCfg.title[1]) : rtCfg.title[1][i] # " "
            /\ rtCfg.sort_key # None
            /\ rtCfg.machine_id = None
            /\ rtCfg.version = <<>>
            /\ rtCfg.linux # <<>>
            /\ \A i \in 1..Len(rtCfg.linux) : rtCfg.linux[i] # " "
            /\ Len(rtCfg.initrd) = 1
            /\ rtCfg.options # None
            /\ rtCfg.extra = None
    IN  (rtPc = "parsed" /\ written) => rtParsed.ok

====
